---------------------------- MODULE Spec2Model ----------------------------
(***************************************************************************)
(* Keypoint-Labeling-Tools: the annotation record model, the path          *)
(* reconciliation cascade and the undo/redo history of the three labelers  *)
(* (keypoint_labeler.py = "v1", keypoint_labelerv2.py = "v2",              *)
(* dual_keypoint_labeler.py = "dual").                                     *)
(*                                                                         *)
(* Conventions of the model                                                *)
(*   - a path string is a sequence of one-character strings, so that       *)
(*     str.endswith, str.split('/') and os.path.basename are computed;     *)
(*     None and '' (both falsy in every test the code makes) are << >>.    *)
(*   - a keypoint is None (<< >>), [x, y] (<<x, y>>) or [x, y, v].         *)
(*   - sequences are 1-based: list index i of the code is i + 1 here, and  *)
(*     selected_keypoint = 0 stands for None.                              *)
(*   - every per-document field of the application object is a field of    *)
(*     st[side]; the single-view variants only ever use side "left".       *)
(***************************************************************************)
EXTENDS Integers, Sequences, FiniteSets, TLC

VARIABLES
    variant,            \* which of the three programs runs
    st,                 \* side -> the per-document fields of the application
    edit_mode,          \* self.edit_mode        ("move" | "add" | "delete")
    format_mode,        \* self.format_mode      ("standard" | "coco")
    drag_state_saved,   \* hasattr(self, '_drag_state_saved')
    active_side,        \* self.active_side      (dual; "left" in v1, v2)
    clipboard_coords,   \* self._clipboard_coords is set (dual)
    pointer,            \* the canvas that holds mouse button 1 ("none" | side)
    auto_save_job,      \* a call of start_auto_save is scheduled with root.after
    objects,            \* the list objects behind the keypoint lists, by identity
    last,               \* observer: the handler that ran last and what it saw
    obs                 \* observer: bookkeeping the properties are stated with

vars == <<variant, st, edit_mode, format_mode, drag_state_saved, active_side,
          clipboard_coords, pointer, auto_save_job, objects, last, obs>>

---------------------------------------------------------------------------
(* Bounds of the model and constants of the program *)

max_history == 50

\* the list objects that can be alive at once
MaxRefs == 5

default_visibility == 2

PickRadiusSq == 900

\* len(self.keypoint_names)
NumKeypointNames == 19

MaxKps == 2

MaxCmds == 2

MaxDrags == 2

\* presses in a run of gestures on the two canvases
MaxGestures == 4

MaxPathLen == 3

\* entries of an imported keypoint list, and commands run on it
MaxPoints == 3
MaxPointCmds == 2

\* the largest number of frames asked of a batch copy
MaxBatch == 3

CapCmds == 52

Sides == {"left", "right"}

Variants == {"v1", "v2", "dual"}

None == << >>

---------------------------------------------------------------------------
(* Generic sequence helpers *)

Min(a, b) == IF a < b THEN a ELSE b

Last(s) == s[Len(s)]

Front(s) == SubSeq(s, 1, Len(s) - 1)

\* pop() that takes the last entry whatever the index
RemoveLast(s, i) == SubSeq(s, 1, Len(s) - 1)

RemoveAt(s, i) == SubSeq(s, 1, i - 1) \o SubSeq(s, i + 1, Len(s))

\* str.endswith
EndsWith(s, t) ==
    /\ Len(t) <= Len(s)
    /\ SubSeq(s, Len(s) - Len(t) + 1, Len(s)) = t

\* Position of the last '/' of a path string, 0 when it has none.
LastSlash(p) ==
    LET S == {i \in 1..Len(p) : p[i] = "/"}
    IN  IF S = {} THEN 0 ELSE CHOOSE i \in S : \A j \in S : j <= i

\* os.path.basename
basename(p) == SubSeq(p, LastSlash(p) + 1, Len(p))

\* str.split('/'): the sequence of segments of a path string
RECURSIVE split(_)
split(p) ==
    LET S == {i \in 1..Len(p) : p[i] = "/"}
    IN  IF S = {} THEN <<p>>
        ELSE LET i == CHOOSE k \in S : \A j \in S : k <= j
             IN  <<SubSeq(p, 1, i - 1)>> \o split(SubSeq(p, i + 1, Len(p)))

\* '/'.join(parts)
RECURSIVE join(_)
join(parts) ==
    IF parts = << >> THEN << >>
    ELSE IF Len(parts) = 1 THEN parts[1]
    ELSE parts[1] \o <<"/">> \o join(Tail(parts))

---------------------------------------------------------------------------
(* PathMatcher *)

\* normalize_path: every backslash becomes a forward slash; None stays None.
RECURSIVE normalize_path(_)
normalize_path(path) ==
    IF path = << >> THEN << >>
    ELSE <<IF Head(path) = "\\" THEN "/" ELSE Head(path)>> \o normalize_path(Tail(path))

\* get_relative_path(join(folder, image_path), folder): the image path itself,
\* normalized (os.path.relpath undoes the join).
get_relative_path(image_path) == normalize_path(image_path)

\* The directory name the code looks for in the parts of the selected folder.
ImagesDir == <<"i", "m", "a", "g", "e", "s">>

\* get_base_images_path: the parts of the selected folder up to and including
\* the first part named 'images'; the folder itself when there is none.
get_base_images_path(folder) ==
    LET S == {i \in 1..Len(folder) : folder[i] = ImagesDir}
    IN  IF S = {} THEN folder
        ELSE SubSeq(folder, 1, CHOOSE i \in S : \A j \in S : i <= j)

\* get_annotation_match_path: the image path relative to the base images
\* directory, i.e. the folder parts below 'images' followed by the image path.
get_annotation_match_path(image_path, folder) ==
    LET base == get_base_images_path(folder)
        below == SubSeq(folder, Len(base) + 1, Len(folder))
    IN  normalize_path(join(below \o <<image_path>>))

\* The last k segments of a list of segments (Python's parts[-k:], which is the
\* whole list when k exceeds its length).
LastParts(parts, k) ==
    IF k >= Len(parts) THEN parts ELSE SubSeq(parts, Len(parts) - k + 1, Len(parts))

\* Python's parts[i:] for a 0-based i.
PartsFrom(parts, i) == SubSeq(parts, i + 1, Len(parts))

\* match with the path-ending test made in one direction only
match_one_way(image_rel_path, annotation_path) ==
    IF image_rel_path = None \/ annotation_path = None THEN FALSE
    ELSE LET img == normalize_path(image_rel_path)
             ann == normalize_path(annotation_path)
             img_parts == split(img)
             ann_parts == split(ann)
         IN  \/ img = ann
             \/ basename(img) = basename(ann)
             \/ EndsWith(img, ann)
             \/ \E i \in 0..(Len(img_parts) - 1) :
                   PartsFrom(img_parts, i) =
                       LastParts(ann_parts, Len(PartsFrom(img_parts, i)))

match_annotation_path(image_rel_path, annotation_path) ==
    IF image_rel_path = None \/ annotation_path = None THEN FALSE
    ELSE LET img == normalize_path(image_rel_path)
             ann == normalize_path(annotation_path)
             img_parts == split(img)
             ann_parts == split(ann)
         IN  \/ img = ann
             \/ basename(img) = basename(ann)
             \/ EndsWith(img, ann) \/ EndsWith(ann, img)
             \/ \E i \in 0..(Len(img_parts) - 1) :
                   PartsFrom(img_parts, i) =
                       LastParts(ann_parts, Len(PartsFrom(img_parts, i)))

---------------------------------------------------------------------------
(* KeypointRecord *)

\* kp is not None and len(kp) >= 2
IsPoint(kp) == Len(kp) >= 2

HasNone(keypoints) == \E i \in 1..Len(keypoints) : keypoints[i] = None

\* (img_x - kp_x)**2 + (img_y - kp_y)**2; the code compares its square root
\* with 30, which is the comparison of this number with 900.
DistSq(kp, x, y) == (x - kp[1]) * (x - kp[1]) + (y - kp[2]) * (y - kp[2])

\* The scan shared by every nearest-keypoint loop: the first index, among the
\* present keypoints within the threshold, of minimum distance (strict "<"
\* against the running minimum keeps the first of equals); 0 when none.
NearestIndex(keypoints, x, y) ==
    LET C == {i \in 1..Len(keypoints) :
                 IsPoint(keypoints[i]) /\ DistSq(keypoints[i], x, y) < PickRadiusSq}
    IN  IF C = {} THEN 0
        ELSE CHOOSE i \in C :
                \A j \in C : \/ DistSq(keypoints[i], x, y) < DistSq(keypoints[j], x, y)
                             \/ (DistSq(keypoints[i], x, y) = DistSq(keypoints[j], x, y) /\ i <= j)

\* find_nearest_keypoint of the dual labeler (None entries are skipped).
find_nearest_keypoint(keypoints, x, y) == NearestIndex(keypoints, x, y)

\* The name the lists and the canvas show for the entry at idx (1-based
\* here): keypoint_names[idx % len(keypoint_names)], the i of 'KPi'.
label(idx) == (idx - 1) % NumKeypointNames

---------------------------------------------------------------------------
(* AnnotationStore: the lookup index, a Python dict (insertion ordered), as a *)
(* sequence of [k |-> key, v |-> position of the record in the document].    *)

DictHas(d, key) == \E i \in 1..Len(d) : d[i].k = key

DictGet(d, key) == d[CHOOSE i \in 1..Len(d) : d[i].k = key].v

\* d[key] = v: an existing key keeps its place in the order.
DictPut(d, key, v) ==
    IF DictHas(d, key)
    THEN LET i == CHOOSE j \in 1..Len(d) : d[j].k = key
         IN  SubSeq(d, 1, i - 1) \o <<[k |-> key, v |-> v]>> \o SubSeq(d, i + 1, Len(d))
    ELSE Append(d, [k |-> key, v |-> v])

\* The value of the first item, in dict order, whose key satisfies match
\* against path; 0 when there is none.
FirstMatch(d, path) ==
    LET S == {i \in 1..Len(d) : match_annotation_path(path, d[i].k)}
    IN  IF S = {} THEN 0 ELSE d[CHOOSE i \in S : \A j \in S : i <= j].v

\* import_annotations: the index built from the records of a document.
RECURSIVE BuildIndex(_, _, _)
BuildIndex(annotations, i, d) ==
    IF i > Len(annotations) THEN d
    ELSE LET ann_path == annotations[i].image
             normalized == normalize_path(ann_path)
             filename == basename(normalized)
             d1 == DictPut(d, normalized, i)
             d2 == IF DictHas(d1, filename) THEN d1 ELSE DictPut(d1, filename, i)
         IN  BuildIndex(annotations, i + 1, IF ann_path = None THEN d ELSE d2)

---------------------------------------------------------------------------
(* The fields of one document/side, and the record being edited *)

NoDocument == [loaded |-> FALSE, annotations |-> << >>]

\* the annotation file chosen in the dialog of import_annotations
ImportedFile == <<"j">>

NewRecord(image) == [image |-> image, keypoints |-> << >>]

InitSide ==
    [ image_folder       |-> None,
      image_list         |-> << >>,
      current_image_index |-> 0,
      current_image_path |-> None,
      annotations_data   |-> NoDocument,
      annotation_dict    |-> << >>,
      current_annotation |-> 0,
      temp_annotation    |-> NewRecord(None),
      undo_stack         |-> << >>,
      redo_stack         |-> << >>,
      selected_keypoint  |-> 0,
      unsaved_changes    |-> FALSE,
      annotation_file    |-> None,
      last_save_recent   |-> FALSE,
      info               |-> None ]

\* last_save_recent stands for self.last_save_time: TRUE when the last save is
\* less than auto_save_interval before the next scheduled start_auto_save
\* (never at the start, last_save_time being 0).

\* info is annotations_data['info']: None when the document has no such key,
\* else <<num_images, num_keypoints>>.

\* current_annotation: 0 is None, k >= 1 is annotations_data['annotations'][k-1],
\* -1 is a record that is in no document (the temporary record made when no
\* document is loaded), held in temp_annotation.
HasCurrent(d) == d.current_annotation # 0

CurrentRecord(d) ==
    IF d.current_annotation = -1 THEN d.temp_annotation
    ELSE d.annotations_data.annotations[d.current_annotation]

\* self.current_annotation.get('keypoints', [])
Keypoints(d) == IF HasCurrent(d) THEN CurrentRecord(d).keypoints ELSE << >>

\* self.current_annotation['keypoints'] = kps (or an in-place change of the list)
SetKeypoints(d, kps) ==
    IF d.current_annotation = -1
    THEN [d EXCEPT !.temp_annotation.keypoints = kps]
    ELSE [d EXCEPT !.annotations_data.annotations[d.current_annotation].keypoints = kps]

---------------------------------------------------------------------------
(* EditHistory *)

\* save_state with the redo stack kept: the slip of forgetting redo_stack.clear()
save_state_keeps_redo(d) ==
    IF ~HasCurrent(d) THEN d
    ELSE LET pushed == Append(d.undo_stack, Keypoints(d))
         IN  [d EXCEPT !.undo_stack =
                  IF Len(pushed) > max_history THEN Tail(pushed) ELSE pushed]

\* save_state evicting the newest entry instead of the oldest (pop() for pop(0))
save_state_pops_newest(d) ==
    IF ~HasCurrent(d) THEN d
    ELSE LET pushed == Append(d.undo_stack, Keypoints(d))
         IN  [d EXCEPT !.undo_stack =
                  IF Len(pushed) > max_history THEN Front(pushed) ELSE pushed,
                       !.redo_stack = << >>]

save_state(d) ==
    IF ~HasCurrent(d) THEN d
    ELSE LET pushed == Append(d.undo_stack, Keypoints(d))
         IN  [d EXCEPT !.undo_stack =
                  IF Len(pushed) > max_history THEN Tail(pushed) ELSE pushed,
                       !.redo_stack = << >>]

\* undo that saves the current keypoints for redo before it tests the stack
undo_pushes_first(d) ==
    IF ~HasCurrent(d) THEN d
    ELSE IF d.undo_stack = << >>
         THEN [d EXCEPT !.redo_stack = Append(@, Keypoints(d))]
         ELSE SetKeypoints([d EXCEPT !.redo_stack = Append(@, Keypoints(d)),
                                     !.undo_stack = Front(@)],
                           Last(d.undo_stack))

undo_action(d) ==
    IF d.undo_stack = << >> \/ ~HasCurrent(d) THEN d
    ELSE SetKeypoints([d EXCEPT !.redo_stack = Append(@, Keypoints(d)),
                                !.undo_stack = Front(@)],
                      Last(d.undo_stack))

redo_action(d) ==
    IF d.redo_stack = << >> \/ ~HasCurrent(d) THEN d
    ELSE SetKeypoints([d EXCEPT !.undo_stack = Append(@, Keypoints(d)),
                                !.redo_stack = Front(@)],
                      Last(d.redo_stack))

---------------------------------------------------------------------------
(* Resolution of the record of an image *)

\* load_current_image of v1 and v2: the five strategies, first hit wins.
\* The result is the position of the record in the document, 0 on a miss.
resolve_single(dict, rel, amp) ==
    IF amp # None /\ DictHas(dict, amp) THEN DictGet(dict, amp)
    ELSE IF rel # None /\ DictHas(dict, rel) THEN DictGet(dict, rel)
    ELSE IF DictHas(dict, basename(rel)) THEN DictGet(dict, basename(rel))
    ELSE IF amp # None /\ FirstMatch(dict, amp) # 0 THEN FirstMatch(dict, amp)
    ELSE IF rel # None THEN FirstMatch(dict, rel)
    ELSE 0

\* load_current_image of the dual labeler: the exact selected-folder-relative
\* path, then the bare filename.
resolve_dual(dict, rel) ==
    IF rel # None /\ DictHas(dict, rel) THEN DictGet(dict, rel)
    ELSE IF DictHas(dict, basename(rel)) THEN DictGet(dict, basename(rel))
    ELSE 0

\* copy_from_previous_frame of v1: exact path, filename, then match().
resolve_previous_v1(dict, rel) ==
    IF rel # None /\ DictHas(dict, rel) THEN DictGet(dict, rel)
    ELSE IF DictHas(dict, basename(rel)) THEN DictGet(dict, basename(rel))
    ELSE IF rel # None THEN FirstMatch(dict, rel)
    ELSE 0

Resolve(v, dict, rel, amp) ==
    IF v = "dual" THEN resolve_dual(dict, rel) ELSE resolve_single(dict, rel, amp)

\* The record a load of the image at list index idx (0-based) resolves to.
ResolveImage(v, d, idx) ==
    LET image_path == d.image_list[idx + 1]
    IN  Resolve(v, d.annotation_dict, get_relative_path(image_path),
                get_annotation_match_path(image_path, d.image_folder))

\* is_image_annotated for the image at list index idx (0-based): the first
\* entry of the index, in insertion order, whose key is the relative path of
\* the image, its match path (v1, v2) or a path with its filename, decides.
is_image_annotated(d, v, idx) ==
    LET image_path == d.image_list[idx + 1]
        image_rel_path == get_relative_path(image_path)
        annotation_match_path == get_annotation_match_path(image_path, d.image_folder)
        dict == d.annotation_dict
        hits == {i \in 1..Len(dict) :
                    \/ dict[i].k = image_rel_path
                    \/ v # "dual" /\ dict[i].k = annotation_match_path
                    \/ basename(dict[i].k) = basename(image_path)}
        first == CHOOSE i \in hits : \A j \in hits : i <= j
    IN  IF ~d.annotations_data.loaded \/ hits = {} THEN FALSE
        ELSE Len(d.annotations_data.annotations[dict[first].v].keypoints) > 0

\* load_current_image. file is what the disk holds for the image: "ok",
\* "missing" (os.path.exists is false) or "corrupt" (Image.open raises).
load_current_image(d, v, file) ==
    IF d.image_list = << >> \/ d.current_image_index >= Len(d.image_list) THEN d
    ELSE IF d.image_folder = None THEN d
    ELSE IF file = "missing" THEN d
    ELSE
      LET image_path == d.image_list[d.current_image_index + 1]
          image_rel_path == get_relative_path(image_path)
          matched == ResolveImage(v, d, d.current_image_index)
          anns == d.annotations_data.annotations
          d1 == [d EXCEPT !.current_image_path = image_path]
          \* a hit: the record becomes current; v1, v2 rewrite its image field
          hit == [d1 EXCEPT
                    !.current_annotation = matched,
                    !.annotations_data.annotations[matched].image =
                        IF v = "dual" THEN @ ELSE image_rel_path]
          \* a miss: a new record is appended and indexed
          n == Len(anns) + 1
          dictRel == DictPut(d.annotation_dict, image_rel_path, n)
          filename == basename(image_rel_path)
          created == [d1 EXCEPT
                    !.current_annotation = n,
                    !.annotations_data.annotations = Append(anns, NewRecord(image_rel_path)),
                    !.annotation_dict =
                        IF v = "dual" \/ DictHas(dictRel, filename) THEN dictRel
                        ELSE DictPut(dictRel, filename, n)]
          \* no document: a temporary record
          temp == [d1 EXCEPT !.current_annotation = -1,
                            !.temp_annotation = NewRecord(image_rel_path)]
          d2 == IF ~d.annotations_data.loaded THEN temp
                ELSE IF matched # 0 THEN hit ELSE created
      IN  IF file = "corrupt" THEN d1
          ELSE [d2 EXCEPT !.selected_keypoint = 0,
                          !.undo_stack = << >>,
                          !.redo_stack = << >>]

\* load_image_list (called by select_image_folder) up to its call of
\* load_current_image: the sorted list of the images below the folder; v1 and
\* v2 go back to the first image, the dual labeler keeps its index.
load_image_list_staged(d, v, folder, images) ==
    [d EXCEPT !.image_folder = folder,
              !.image_list = images,
              !.current_image_index = IF v # "dual" /\ images # << >> THEN 0 ELSE @]

\* whether load_image_list goes on to load_current_image
load_image_list_loads(d, v, images) ==
    images # << >> /\ (v # "dual" \/ d.current_image_index = 0)

load_image_list(d, v, folder, images, file) ==
    IF load_image_list_loads(d, v, images)
    THEN load_current_image(load_image_list_staged(d, v, folder, images), v, file)
    ELSE load_image_list_staged(d, v, folder, images)

\* import_annotations (a readable, well-formed file) up to its call of
\* load_current_image. A record of the replaced document that is still current
\* is in no document any more.
import_annotations_staged(d, document) ==
    [d EXCEPT
        !.annotations_data = [loaded |-> TRUE, annotations |-> document],
        !.annotation_file = ImportedFile,
        !.info = None,
        !.annotation_dict = BuildIndex(document, 1, << >>),
        !.temp_annotation = IF HasCurrent(d) THEN CurrentRecord(d) ELSE @,
        !.current_annotation = IF HasCurrent(d) THEN -1 ELSE 0]

import_annotations(d, v, document, file) ==
    IF d.current_image_path # None
    THEN load_current_image(import_annotations_staged(d, document), v, file)
    ELSE import_annotations_staged(d, document)

\* the path of a file whose import fails
FailedFile == <<"k">>

\* import_annotations on a file whose import raises inside the try block.
\* "unreadable": open raises; "malformed": json.load raises; both before
\* anything is assigned. "top_level": the file holds the JSON list []: it is
\* assigned to annotations_data and the path to annotation_file, and then
\* annotations_data.get raises, in the dual labeler after annotation_dict was
\* emptied, in v1 and v2 before. The empty list is falsy, as no document is;
\* the current record stays the object it was, which is in no document now.
import_annotations_failed(d, v, failure) ==
    IF failure \in {"unreadable", "malformed"} THEN d
    ELSE [d EXCEPT
            !.annotations_data = NoDocument,
            !.annotation_file = FailedFile,
            !.info = None,
            !.annotation_dict = IF v = "dual" THEN << >> ELSE @,
            !.temp_annotation = IF HasCurrent(d) THEN CurrentRecord(d) ELSE @,
            !.current_annotation = IF HasCurrent(d) THEN -1 ELSE 0]

previous_image(d, v, file) ==
    IF d.image_list # << >> /\ d.current_image_index > 0
    THEN load_current_image([d EXCEPT !.current_image_index = @ - 1], v, file)
    ELSE d

\* a next_image whose load leaves the undo and redo stacks as they are
next_image_keeps_stacks(d, v, file) ==
    IF d.image_list # << >> /\ d.current_image_index < Len(d.image_list) - 1
    THEN [load_current_image([d EXCEPT !.current_image_index = @ + 1], v, file)
             EXCEPT !.undo_stack = d.undo_stack, !.redo_stack = d.redo_stack]
    ELSE d

next_image(d, v, file) ==
    IF d.image_list # << >> /\ d.current_image_index < Len(d.image_list) - 1
    THEN load_current_image([d EXCEPT !.current_image_index = @ + 1], v, file)
    ELSE d

---------------------------------------------------------------------------
(* jumps and the list selection *)

\* The index a jump goes to: jump_to_image(index) of the dual labeler clamps
\* (-1 is the last image), the dialog of v1 and v2 takes a number from 1.
jump_target(d, v, n) ==
    IF v = "dual"
    THEN IF n = -1 THEN Len(d.image_list) - 1
         ELSE IF Min(n, Len(d.image_list) - 1) < 0 THEN 0
              ELSE Min(n, Len(d.image_list) - 1)
    ELSE n - 1

jump_accepted(d, v, n) ==
    IF v = "dual" THEN d.image_list # << >>
    ELSE 1 <= n /\ n <= Len(d.image_list)

jump_to_image(d, v, n, file) ==
    IF jump_accepted(d, v, n)
    THEN load_current_image([d EXCEPT !.current_image_index = jump_target(d, v, n)],
                            v, file)
    ELSE d

\* on_image_select of v1 and v2: the entry at position i of the listbox is the
\* image of that name, whose index in the image list is i.
on_image_select(d, v, i, file) ==
    load_current_image([d EXCEPT !.current_image_index = i], v, file)

---------------------------------------------------------------------------
(* AnnotationEngine: the editing handlers, as transformers of one side *)

Touch(d, kps) == [SetKeypoints(d, kps) EXCEPT !.unsaved_changes = TRUE]

\* The entry a click or a paste appends.
NewPoint(fmt, x, y, vis) == IF fmt = "coco" THEN <<x, y, vis>> ELSE <<x, y>>

\* on_canvas_click. The scans of v1 and v2 take len(kp) of every entry and so
\* raise on a None entry, which ends the handler where it stands.
on_canvas_click(d, v, mode, fmt, x, y, vis) ==
    LET kps == Keypoints(d)
        raises == v # "dual" /\ HasNone(kps)
        nearest_idx == NearestIndex(kps, x, y)
    IN  IF ~HasCurrent(d) THEN d
        ELSE IF mode = "move"
             THEN IF raises THEN d ELSE [d EXCEPT !.selected_keypoint = nearest_idx]
        ELSE IF mode = "add"
             THEN Touch(save_state(d), Append(kps, NewPoint(fmt, x, y, vis)))
        ELSE IF raises \/ nearest_idx = 0 THEN d
             ELSE [Touch(save_state(d), RemoveAt(kps, nearest_idx))
                       EXCEPT !.selected_keypoint = 0]

\* The entry a drag writes: [x, y]; the dual labeler keeps the visibility of a
\* three-element entry in COCO mode.
DraggedPoint(v, fmt, old_kp, x, y) ==
    IF v = "dual" /\ fmt = "coco" /\ Len(old_kp) >= 3
    THEN <<x, y, old_kp[3]>> ELSE <<x, y>>

\* on_canvas_drag; flag is hasattr(self, '_drag_state_saved') on entry.
on_canvas_drag(d, v, mode, fmt, flag, x, y) ==
    IF d.selected_keypoint # 0 /\ mode = "move"
    THEN LET d1 == IF flag THEN d ELSE save_state(d)
             kps == Keypoints(d)
             sel == d.selected_keypoint
         IN  IF sel <= Len(kps)
             THEN Touch(d1, [kps EXCEPT ![sel] = DraggedPoint(v, fmt, kps[sel], x, y)])
             ELSE d1
    ELSE d

\* hasattr(self, '_drag_state_saved') when on_canvas_drag returns
drag_state_after_drag(d, mode, flag) ==
    IF d.selected_keypoint # 0 /\ mode = "move" THEN TRUE ELSE flag

\* on_canvas_release that leaves the drag flag as it is
release_keeps_drag_state(flag) == flag

\* hasattr(self, '_drag_state_saved') when on_canvas_release returns
drag_state_after_release(flag) == FALSE

on_canvas_release(d) == [d EXCEPT !.selected_keypoint = 0]

\* set_keypoint_visibility(idx, visibility), idx 1-based here
set_keypoint_visibility(d, idx, visibility) ==
    LET kps == Keypoints(d)
    IN  IF ~HasCurrent(d) THEN d
        ELSE IF idx > Len(kps) THEN d
        ELSE IF ~IsPoint(kps[idx]) THEN save_state(d)
        ELSE Touch(save_state(d),
                   [kps EXCEPT ![idx] = <<kps[idx][1], kps[idx][2], visibility>>])

\* on_canvas_right_click of v2 followed by the choice of a visibility in the
\* menu it shows (COCO mode only, and only on a keypoint within the radius).
on_canvas_right_click(d, fmt, x, y, visibility) ==
    IF fmt # "coco" \/ ~HasCurrent(d) THEN d
    ELSE IF NearestIndex(Keypoints(d), x, y) = 0 THEN d
    ELSE set_keypoint_visibility(d, NearestIndex(Keypoints(d), x, y), visibility)

\* delete_keypoint_at_index of the dual labeler, idx 1-based here
delete_keypoint_at_index(d, idx) ==
    IF ~HasCurrent(d) THEN d
    ELSE IF idx > Len(Keypoints(d)) THEN d
    ELSE [Touch(save_state(d), RemoveAt(Keypoints(d), idx)) EXCEPT !.selected_keypoint = 0]

\* paste_keypoint of the dual labeler; clip is hasattr(self, '_clipboard_coords').
\* Without a current record the handler raises after save_state returned.
paste_keypoint(d, fmt, clip, x, y, vis) ==
    IF ~clip \/ ~HasCurrent(d) THEN d
    ELSE Touch(save_state(d), Append(Keypoints(d), NewPoint(fmt, x, y, vis)))

clear_keypoints(d) ==
    IF HasCurrent(d) THEN Touch(save_state(d), << >>) ELSE d

\* The cleaning loop of copy_from_previous_frame (v2, dual) for one entry.
CleanPoint(kp, fmt) ==
    IF Len(kp) < 2 THEN None
    ELSE IF Len(kp) >= 3 THEN <<kp[1], kp[2], kp[3]>>
    ELSE IF fmt = "coco" THEN <<kp[1], kp[2], default_visibility>>
    ELSE <<kp[1], kp[2]>>

RECURSIVE CleanPoints(_, _)
CleanPoints(kps, fmt) ==
    IF kps = << >> THEN << >>
    ELSE <<CleanPoint(Head(kps), fmt)>> \o CleanPoints(Tail(kps), fmt)

\* The record copy_from_previous_frame finds for the previous image.
PreviousRecord(d, v) ==
    LET prev_image_path == d.image_list[d.current_image_index]
        prev_rel_path == get_relative_path(prev_image_path)
        prev_match_path == get_annotation_match_path(prev_image_path, d.image_folder)
    IN  IF v = "v1" THEN resolve_previous_v1(d.annotation_dict, prev_rel_path)
        ELSE IF v = "v2" THEN resolve_single(d.annotation_dict, prev_rel_path, prev_match_path)
        ELSE resolve_dual(d.annotation_dict, prev_rel_path)

\* The message box copy_from_previous_frame ends with: "warning" for the four
\* refusals, "info" for a previous record without keypoints, "none" after a copy.
copy_from_previous_message(d, v) ==
    IF ~HasCurrent(d) \/ d.current_image_index = 0 \/ ~d.annotations_data.loaded
    THEN "warning"
    ELSE IF PreviousRecord(d, v) = 0 THEN "warning"
    ELSE IF d.annotations_data.annotations[PreviousRecord(d, v)].keypoints = << >>
         THEN "info"
    ELSE "none"

\* copy_from_previous_frame without the test of the first image: the index
\* -1 of the list is its last image
copy_from_wrapped_frame(d, v, fmt) ==
    IF ~HasCurrent(d) \/ ~d.annotations_data.loaded THEN d
    ELSE LET d1 == IF v = "v1" THEN d ELSE save_state(d)
             dd == IF d.current_image_index = 0
                   THEN [d EXCEPT !.current_image_index = Len(d.image_list)] ELSE d
         IN  IF PreviousRecord(dd, v) = 0 THEN d1
             ELSE LET prev_keypoints ==
                          d.annotations_data.annotations[PreviousRecord(dd, v)].keypoints
                  IN  IF prev_keypoints = << >> THEN d1
                      ELSE Touch(d1, IF v = "v1" THEN prev_keypoints
                                     ELSE CleanPoints(prev_keypoints, fmt))

\* copy_from_previous_frame: v2 and the dual labeler take the snapshot right
\* after the three refusals, v1 takes none. An index past the list raises.
copy_from_previous_frame(d, v, fmt) ==
    IF ~HasCurrent(d) \/ d.current_image_index = 0 \/ ~d.annotations_data.loaded THEN d
    ELSE LET d1 == IF v = "v1" THEN d ELSE save_state(d)
         IN  IF d.current_image_index > Len(d.image_list) THEN d1
             ELSE IF PreviousRecord(d, v) = 0 THEN d1
             ELSE LET prev_keypoints ==
                          d.annotations_data.annotations[PreviousRecord(d, v)].keypoints
                  IN  IF prev_keypoints = << >> THEN d1
                      ELSE Touch(d1, IF v = "v1" THEN prev_keypoints
                                     ELSE CleanPoints(prev_keypoints, fmt))

\* The loop of copy_batch (v1, v2): frames i..n after the current one.
RECURSIVE copy_batch_loop(_, _, _, _)
copy_batch_loop(d, current_keypoints, i, n) ==
    LET idx == d.current_image_index + i
    IN  IF i > n \/ idx >= Len(d.image_list) THEN d
        ELSE LET img_path == d.image_list[idx + 1]
                 image_rel_path == get_relative_path(img_path)
                 annotation_match_path == get_annotation_match_path(img_path, d.image_folder)
                 dict == d.annotation_dict
                 anns == d.annotations_data.annotations
                 found == IF DictHas(dict, annotation_match_path)
                          THEN DictGet(dict, annotation_match_path)
                          ELSE IF DictHas(dict, image_rel_path)
                          THEN DictGet(dict, image_rel_path)
                          ELSE 0
                 k == Len(anns) + 1
                 created == [d EXCEPT
                     !.annotations_data.annotations =
                         Append(anns, [image |-> annotation_match_path,
                                       keypoints |-> current_keypoints]),
                     !.annotation_dict =
                         DictPut(DictPut(dict, annotation_match_path, k), image_rel_path, k)]
                 copied == [d EXCEPT
                     !.annotations_data.annotations[found].keypoints = current_keypoints]
             IN  copy_batch_loop(IF found = 0 THEN created ELSE copied,
                                 current_keypoints, i + 1, n)

\* batch_copy_keypoints with n typed into its dialog and "Copy" pressed.
copy_batch(d, n) ==
    IF ~HasCurrent(d) \/ ~d.annotations_data.loaded \/ Keypoints(d) = << >> THEN d
    ELSE IF n <= 0 THEN d
    ELSE [copy_batch_loop(d, Keypoints(d), 1,
                          Min(n, Len(d.image_list) - d.current_image_index - 1))
              EXCEPT !.unsaved_changes = TRUE]

\* The number copy_batch reports ("Copied keypoints to N frame(s)"): one for
\* every turn of its loop.
copy_batch_copied(d, n) ==
    LET max_frames == Len(d.image_list) - d.current_image_index - 1
        turns == IF n > max_frames THEN max_frames ELSE n
    IN  Cardinality({i \in 1..turns : d.current_image_index + i < Len(d.image_list)})

\* The entry on_format_mode_change writes when COCO mode is switched on.
\* the switch that sets every point to visible, whatever it carried
UpgradeToVisible(kp) == IF Len(kp) < 2 THEN kp ELSE <<kp[1], kp[2], 2>>

\* Entries that are None or shorter than two are left alone; so is a valid
\* visibility (0, 1 or 2), and any other third element is replaced by 2.
UpgradePoint(kp) ==
    IF Len(kp) < 2 THEN kp
    ELSE IF Len(kp) < 3 THEN <<kp[1], kp[2], 2>>
    ELSE IF kp[3] \notin {0, 1, 2} THEN <<kp[1], kp[2], 2>>
    ELSE kp

RECURSIVE UpgradePoints(_)
UpgradePoints(kps) ==
    IF kps = << >> THEN << >>
    ELSE <<UpgradePoint(Head(kps))>> \o UpgradePoints(Tail(kps))

\* on_format_mode_change for one side; no snapshot is taken. v2 raises the
\* unsaved flag when an entry changed, the dual labeler whenever it looked.
on_format_mode_change(d, v, old_mode, new_mode) ==
    IF new_mode = "coco" /\ old_mode = "standard" /\ HasCurrent(d)
    THEN LET upgraded == SetKeypoints(d, UpgradePoints(Keypoints(d)))
         IN  IF v = "dual" \/ upgraded # d
             THEN [upgraded EXCEPT !.unsaved_changes = TRUE] ELSE d
    ELSE d

\* What save_annotations writes to the annotation file in standard mode:
\* json.dump of the document in memory, list for list and None as null.
save_annotations_written(d) == d.annotations_data.annotations

\* an info object that save_annotations leaves as it is
save_info_stale(anns, info) == info

\* The "Update info" block of save_annotations: num_images is the number of
\* records, num_keypoints the longest keypoint list when there is a record.
save_info(anns, info) ==
    IF info = None THEN None
    ELSE LET lens == {Len(anns[i].keypoints) : i \in 1..Len(anns)}
         IN  <<Len(anns),
               IF anns = << >> THEN info[2]
               ELSE CHOOSE n \in lens : \A m \in lens : m <= n>>

\* save_annotations in standard mode with the file of the import: without a
\* document it warns and returns.
save_annotations(d) ==
    IF ~d.annotations_data.loaded THEN d
    ELSE [d EXCEPT !.unsaved_changes = FALSE, !.last_save_recent = TRUE,
                   !.info = save_info(d.annotations_data.annotations, d.info)]

\* self.coco_annotation_file: the path of the annotation file with "_coco"
\* put before the extension, set wherever the annotation file is (v2, dual).
coco_annotation_file(d) ==
    IF d.annotation_file = None THEN None ELSE d.annotation_file \o <<"_">>

\* has_file of start_auto_save and check_auto_save; v1 knows one file only.
has_file(d, v, fmt) ==
    IF v = "v1" THEN d.annotation_file # None
    ELSE \/ fmt = "coco" /\ coco_annotation_file(d) # None
         \/ fmt = "standard" /\ d.annotation_file # None

\* auto_save reaches open(file_path, 'w'): there is a document and a file
auto_save_writes(d, v, fmt) == d.annotations_data.loaded /\ has_file(d, v, fmt)

\* auto_save that lets the exception of a failing write through
auto_save_uncaught(disk) == disk = "fails"

\* An exception leaves auto_save: never, "except Exception" prints it.
auto_save_raises(disk) == FALSE

\* auto_save; disk is "ok" or "fails" (open or json.dump raises).
auto_save(d, v, fmt, disk) ==
    IF ~auto_save_writes(d, v, fmt) \/ disk = "fails" THEN d
    ELSE [d EXCEPT !.unsaved_changes = FALSE, !.last_save_recent = TRUE]

\* check_auto_save for one side
check_auto_save_calls(d, v, fmt) ==
    d.unsaved_changes /\ has_file(d, v, fmt) /\ ~d.last_save_recent

check_auto_save(d, v, fmt, disk) ==
    IF check_auto_save_calls(d, v, fmt) THEN auto_save(d, v, fmt, disk) ELSE d

\* start_auto_save calls check_auto_save: always in the dual labeler, with a
\* file to save to in v1 and v2 (d is the one document of these).
start_auto_save_checks(v, d, fmt) == v = "dual" \/ has_file(d, v, fmt)

\* start_auto_save schedules its next call, unless raised (an exception left
\* check_auto_save) or it did not check at all.
start_auto_save_schedules(v, d, fmt, raised) ==
    start_auto_save_checks(v, d, fmt) /\ ~raised

---------------------------------------------------------------------------
(* Observers: what the handler of the last step saw, and the bookkeeping   *)
(* the properties are stated with. They never influence the program state. *)

UsedSides == IF variant = "dual" THEN Sides ELSE {"left"}

RECURSIVE Zeros(_)
Zeros(n) == IF n <= 0 THEN << >> ELSE <<0>> \o Zeros(n - 1)

RECURSIVE ImagesOf(_)
ImagesOf(document) ==
    IF document = << >> THEN << >>
    ELSE <<Head(document).image>> \o ImagesOf(Tail(document))

\* The undo stack save_state leaves when it pushes kps onto stack.
PushCap(stack, kps) ==
    IF Len(stack) + 1 > max_history THEN Tail(Append(stack, kps)) ELSE Append(stack, kps)

\* The step from d to d2 pushed a snapshot of the keypoints of d.
Snapshotted(d, d2) ==
    /\ HasCurrent(d)
    /\ d2.undo_stack # d.undo_stack
    /\ d2.undo_stack = PushCap(d.undo_stack, Keypoints(d))

NoLoad ==
    [ok |-> FALSE, doc |-> FALSE, appended |-> FALSE, prev |-> 0,
     dict |-> << >>, rel |-> None, amp |-> None]

\* obs.count:  the commands made that the specifications bound
\* obs.trails: whether the trails are followed
\* and per side:
\* trail:    the keypoint list when the image was loaded, then the list after
\*           each mutating command since (followed when obs.trails is set)
\* phase:    "edit", then "undo" while undos follow the commands, then "redo"
\*           while redos follow the undos; "void" once the run of steps is
\*           none of these
\* n:        the undos (redos) made in phase "undo" ("redo")
\* gdrags:   the drag events of the current gesture that found a selected
\*           keypoint in move mode
\* resolved: per image of the list, the record it resolved to since the
\*           document or the folder was chosen (0: not yet)
\* imported: the image paths of the records of the document as imported
\* document: the annotations list of the document as imported
InitObsSide ==
    [trail |-> << << >> >>, phase |-> "void", n |-> 0, gdrags |-> 0,
     resolved |-> << >>, imported |-> << >>, document |-> << >>]

\* the run of steps is no longer commands, undos, redos: the trail is dropped
Void(o) == [o EXCEPT !.phase = "void", !.n = 0, !.trail = << << >> >>]

\* load_current_image runs to its end from pre.
LoadCompletes(pre, file) ==
    /\ pre.image_list # << >>
    /\ pre.current_image_index < Len(pre.image_list)
    /\ pre.image_folder # None
    /\ file = "ok"

LoadFacts(o, pre, d2, called, file) ==
    IF called /\ LoadCompletes(pre, file)
    THEN LET image_path == pre.image_list[pre.current_image_index + 1]
         IN  [ok |-> TRUE,
              doc |-> pre.annotations_data.loaded,
              appended |-> Len(d2.annotations_data.annotations)
                              > Len(pre.annotations_data.annotations),
              prev |-> IF pre.current_image_index < Len(o.resolved)
                       THEN o.resolved[pre.current_image_index + 1] ELSE 0,
              dict |-> pre.annotation_dict,
              rel |-> get_relative_path(image_path),
              amp |-> get_annotation_match_path(image_path, pre.image_folder)]
    ELSE NoLoad

ObsLoad(o, pre, d2, called, file) ==
    IF called /\ LoadCompletes(pre, file)
    THEN [o EXCEPT !.trail = IF obs.trails THEN <<Keypoints(d2)>> ELSE @,
                   !.phase = IF obs.trails THEN "edit" ELSE @,
                   !.n = 0,
                   !.resolved =
                       IF pre.annotations_data.loaded
                          /\ pre.current_image_index < Len(o.resolved)
                       THEN [@ EXCEPT ![pre.current_image_index + 1] = d2.current_annotation]
                       ELSE @]
    ELSE Void(o)

Effective(d, d2) ==
    Keypoints(d2) # Keypoints(d) \/ d2.undo_stack # d.undo_stack

\* a command of the list add, delete, set-visibility, clear, copy-from-previous
TrailCommand(o, d, d2) ==
    IF ~Effective(d, d2) \/ o.phase = "void" THEN o
    ELSE IF o.phase = "edit" THEN [o EXCEPT !.trail = Append(@, Keypoints(d2))]
    ELSE Void(o)

\* a drag event: the first effective one of a gesture is the command, the
\* following ones continue it
TrailDrag(o, d, d2, counts) ==
    LET o1 == [o EXCEPT !.gdrags = IF counts THEN @ + 1 ELSE @]
    IN  IF ~Effective(d, d2) \/ o.phase = "void" THEN o1
        ELSE IF o.phase # "edit" THEN Void(o1)
        ELSE IF o.gdrags > 0 /\ d2.undo_stack = d.undo_stack /\ Len(o.trail) > 1
             THEN [o1 EXCEPT !.trail = Append(Front(@), Keypoints(d2))]
        ELSE [o1 EXCEPT !.trail = Append(@, Keypoints(d2))]

TrailUndo(o, d, d2) ==
    LET k == Len(o.trail) - 1
    IN  IF o.phase = "edit"
        THEN IF k = 0 THEN (IF d2 = d THEN o ELSE Void(o))
             ELSE [o EXCEPT !.phase = "undo", !.n = 1]
        ELSE IF o.phase = "undo" /\ o.n < k THEN [o EXCEPT !.n = @ + 1]
        ELSE Void(o)

TrailRedo(o, d, d2) ==
    LET k == Len(o.trail) - 1
    IN  IF o.phase = "undo" /\ o.n = k THEN [o EXCEPT !.phase = "redo", !.n = 1]
        ELSE IF o.phase = "redo" /\ o.n < k THEN [o EXCEPT !.n = @ + 1]
        ELSE IF o.phase = "edit" /\ d2 = d THEN o
        ELSE Void(o)

\* any other handler
TrailOther(o, d, d2) ==
    IF ~Effective(d, d2) /\ d2.redo_stack = d.redo_stack THEN o
    ELSE Void(o)

Seen(op, s, d, d2, facts) ==
    [op |-> op, side |-> s,
     kps |-> Keypoints(d),
     undo_len |-> Len(d.undo_stack),
     redo_len |-> Len(d.redo_stack),
     had |-> HasCurrent(d),
     snap |-> op \notin {"undo", "redo"} /\ Snapshotted(d, d2),
     load |-> facts]

---------------------------------------------------------------------------
(* The keypoint lists as objects. A record, an undo entry and a redo entry  *)
(* each hold a reference to a list; copy.deepcopy makes a new list, append, *)
(* pop and item assignment change a list where it is. One document, whose   *)
(* record k belongs to image k. A list nothing refers to any more is freed, *)
(* and its reference is free for the next list made.                        *)

Refs == 1..MaxRefs

NoObjects ==
    [heap |-> [r \in Refs |-> << >>], keypoints |-> << >>, current |-> 0,
     undo_stack |-> << >>, redo_stack |-> << >>]

\* every reference held, record by record and then stack by stack
Holders(o) == o.keypoints \o o.undo_stack \o o.redo_stack

Held(o) == {Holders(o)[i] : i \in 1..Len(Holders(o))}

HasFree(o, n) == Cardinality(Refs \ Held(o)) >= n

NewRef(o) == CHOOSE r \in Refs \ Held(o) : \A q \in Refs \ Held(o) : r <= q

Collect(o) ==
    [o EXCEPT !.heap = [r \in Refs |-> IF r \in Held(o) THEN o.heap[r] ELSE << >>]]

\* References are only ever compared for identity: the lists are renumbered
\* in the order of their holders, which is the numbering json.load starts with.
Renumbered(o) ==
    LET H == Holders(o)
        FirstAt(r) == CHOOSE i \in 1..Len(H) : H[i] = r /\ \A j \in 1..(i - 1) : H[j] # r
        Rank(r) == Cardinality({q \in Held(o) : FirstAt(q) <= FirstAt(r)})
        Of(n) == CHOOSE r \in Held(o) : Rank(r) = n
    IN  [heap |-> [n \in Refs |-> IF n <= Cardinality(Held(o)) THEN o.heap[Of(n)] ELSE << >>],
         keypoints |-> [k \in 1..Len(o.keypoints) |-> Rank(o.keypoints[k])],
         current |-> o.current,
         undo_stack |-> [k \in 1..Len(o.undo_stack) |-> Rank(o.undo_stack[k])],
         redo_stack |-> [k \in 1..Len(o.redo_stack) |-> Rank(o.redo_stack[k])]]

\* self.current_annotation.get('keypoints', []): the list itself
CurrentList(o) == o.keypoints[o.current]

\* json.load: every record gets a list of its own; the first image is loaded
json_load(lists) ==
    [heap |-> [r \in Refs |-> IF r <= Len(lists) THEN lists[r] ELSE << >>],
     keypoints |-> [k \in 1..Len(lists) |-> k], current |-> 1,
     undo_stack |-> << >>, redo_stack |-> << >>]

\* save_state that pushes the list of the record itself, with no deepcopy
save_state_shares(o) ==
    [o EXCEPT !.undo_stack = Append(@, CurrentList(o)), !.redo_stack = << >>]

\* save_state: a deep copy of the current list goes on the undo stack
save_state_objects(o) ==
    LET r == NewRef(o)
        pushed == Append(o.undo_stack, r)
    IN  [o EXCEPT !.heap[r] = o.heap[CurrentList(o)],
                  !.undo_stack = IF Len(pushed) > max_history THEN Tail(pushed) ELSE pushed,
                  !.redo_stack = << >>]

\* undo_action: a deep copy of the current list goes on the redo stack, the
\* entry popped from the undo stack is deep-copied into the record
undo_action_objects(o) ==
    IF o.undo_stack = << >> THEN o
    ELSE LET a == NewRef(o)
             o1 == [o EXCEPT !.heap[a] = o.heap[CurrentList(o)],
                             !.redo_stack = Append(@, a)]
             previous_keypoints == Last(o1.undo_stack)
             o2 == [o1 EXCEPT !.undo_stack = Front(@)]
             b == NewRef(o2)
         IN  Collect([o2 EXCEPT !.heap[b] = o.heap[previous_keypoints],
                                !.keypoints[o.current] = b])

redo_action_objects(o) ==
    IF o.redo_stack = << >> THEN o
    ELSE LET a == NewRef(o)
             o1 == [o EXCEPT !.heap[a] = o.heap[CurrentList(o)],
                             !.undo_stack = Append(@, a)]
             next_keypoints == Last(o1.redo_stack)
             o2 == [o1 EXCEPT !.redo_stack = Front(@)]
             b == NewRef(o2)
         IN  Collect([o2 EXCEPT !.heap[b] = o.heap[next_keypoints],
                                !.keypoints[o.current] = b])

\* on_canvas_click in add mode: save_state, then append to the list in place
click_add_objects(o, x, y) ==
    LET o1 == save_state_objects(o)
    IN  [o1 EXCEPT !.heap[CurrentList(o)] = Append(@, <<x, y>>)]

\* on_canvas_click in delete mode on entry idx: save_state, then pop in place
click_delete_objects(o, idx) ==
    LET o1 == save_state_objects(o)
    IN  [o1 EXCEPT !.heap[CurrentList(o)] = RemoveAt(@, idx)]

\* on_canvas_drag of entry idx: save_state unless the flag is set, then the
\* item is assigned a new point in place
on_canvas_drag_objects(o, flag, idx, x, y) ==
    LET o1 == IF flag THEN o ELSE save_state_objects(o)
    IN  [o1 EXCEPT !.heap[CurrentList(o)][idx] = <<x, y>>]

\* clear_keypoints: save_state, then the record gets a new empty list
clear_keypoints_objects(o) ==
    LET o1 == save_state_objects(o)
        b == NewRef(o1)
    IN  Collect([o1 EXCEPT !.heap[b] = << >>, !.keypoints[o.current] = b])

\* copy_from_previous_frame: the record gets a new list, made from a deep copy
\* of the list of the record before it (v2 and the dual labeler save the
\* state first and clean the entries)
copy_from_previous_objects(o, v, fmt) ==
    IF o.current <= 1 THEN o
    ELSE LET o1 == IF v = "v1" THEN o ELSE save_state_objects(o)
             prev_keypoints == o.heap[o.keypoints[o.current - 1]]
             b == NewRef(o1)
         IN  IF prev_keypoints = << >> THEN o1
             ELSE Collect([o1 EXCEPT !.heap[b] = IF v = "v1" THEN prev_keypoints
                                                 ELSE CleanPoints(prev_keypoints, fmt),
                                    !.keypoints[o.current] = b])

\* The loop of copy_batch: each of the n records after the current one gets a
\* deep copy of the current list.
RECURSIVE copy_batch_objects(_, _, _)
copy_batch_objects(o, i, n) ==
    IF i > n \/ o.current + i > Len(o.keypoints) THEN o
    ELSE LET o1 == [o EXCEPT !.keypoints[o.current + i] = 0]
             b == NewRef(o1)
         IN  copy_batch_objects([o1 EXCEPT !.heap[b] = o.heap[CurrentList(o)],
                                           !.keypoints[o.current + i] = b],
                                i + 1, n)

\* previous_image and next_image with a load that succeeds: the record of the
\* image becomes the current one, the stacks are cleared
load_current_image_objects(o, k) ==
    Collect([o EXCEPT !.current = k, !.undo_stack = << >>, !.redo_stack = << >>])

---------------------------------------------------------------------------
(* The state after construction *)

InitWith(trails) ==
    /\ variant \in Variants
    /\ st = [s \in Sides |-> InitSide]
    /\ edit_mode = "move"
    /\ format_mode = "standard"
    /\ drag_state_saved = FALSE
    /\ active_side = "left"
    /\ clipboard_coords = FALSE
    /\ pointer = "none"
    /\ auto_save_job = start_auto_save_schedules(variant, InitSide, "standard", FALSE)
    /\ objects = NoObjects
    /\ last = Seen("init", "left", InitSide, InitSide, NoLoad)
    /\ obs = [count |-> 0, trails |-> trails, left |-> InitObsSide, right |-> InitObsSide]

Init == InitWith(FALSE)

\* the same state, with the trail of commands followed
InitTrails == InitWith(TRUE)

---------------------------------------------------------------------------
(* The handlers as steps of the application. Button 1 is held by at most   *)
(* one canvas at a time (Tk delivers B1-Motion and ButtonRelease-1 to the   *)
(* widget that got Button-1); while it is held only the handlers bound to   *)
(* keys can run.                                                            *)

Globals == <<objects, auto_save_job, variant, edit_mode, format_mode, drag_state_saved, active_side,
             clipboard_coords, pointer>>

\* a handler that ends in load_current_image
LoadStep(op, s, pre, d2, called, file, o) ==
    /\ st' = [st EXCEPT ![s] = d2]
    /\ last' = Seen(op, s, st[s], d2, LoadFacts(o, pre, d2, called, file))
    /\ obs' = [obs EXCEPT ![s] = ObsLoad(o, pre, d2, called, file)]

\* a handler that writes its result to both sides
EditBothSides(op, s, d2, o2) ==
    /\ st' = [t \in Sides |-> d2]
    /\ last' = Seen(op, s, st[s], d2, NoLoad)
    /\ obs' = [obs EXCEPT ![s] = o2, !.count = @ + 1]

\* a handler that edits the record of side s
EditStep(op, s, d2, o2) ==
    /\ st' = [st EXCEPT ![s] = d2]
    /\ last' = Seen(op, s, st[s], d2, NoLoad)
    /\ obs' = [obs EXCEPT ![s] = o2, !.count = @ + 1]

SelectImageFolder(s, folder, images, file) ==
    /\ pointer = "none"
    /\ LoadStep("select_image_folder", s,
                load_image_list_staged(st[s], variant, folder, images),
                load_image_list(st[s], variant, folder, images, file),
                load_image_list_loads(st[s], variant, images), file,
                [obs[s] EXCEPT !.resolved = Zeros(Len(images))])
    /\ UNCHANGED Globals

ImportAnnotations(s, document, file) ==
    /\ pointer = "none"
    /\ LoadStep("import_annotations", s,
                import_annotations_staged(st[s], document),
                import_annotations(st[s], variant, document, file),
                st[s].current_image_path # None, file,
                [obs[s] EXCEPT !.resolved = Zeros(Len(st[s].image_list)),
                               !.imported = ImagesOf(document),
                               !.document = document])
    /\ UNCHANGED Globals

\* import_annotations of a file whose document has an info object
ImportAnnotationsInfo(s, document, info) ==
    /\ pointer = "none"
    /\ LoadStep("import_annotations", s,
                [import_annotations_staged(st[s], document) EXCEPT !.info = info],
                [import_annotations(st[s], variant, document, "ok") EXCEPT !.info = info],
                st[s].current_image_path # None, "ok",
                [obs[s] EXCEPT !.resolved = Zeros(Len(st[s].image_list)),
                               !.imported = ImagesOf(document),
                               !.document = document])
    /\ UNCHANGED Globals

\* Import of a file that cannot be imported; the error dialog is shown.
ImportFails(s, failure) ==
    /\ pointer = "none"
    /\ s \in UsedSides
    /\ st' = [st EXCEPT ![s] = import_annotations_failed(st[s], variant, failure)]
    /\ last' = [op |-> "import_annotations_failed", side |-> s, failure |-> failure,
                before |-> st[s]]
    /\ UNCHANGED <<objects, auto_save_job, variant, edit_mode, format_mode, drag_state_saved, active_side,
                   clipboard_coords, pointer, obs>>

PreviousImage(file) ==
    LET s == active_side
    IN  /\ st[s].image_list # << >>
        /\ st[s].current_image_index > 0
        /\ LoadStep("previous_image", s,
                    [st[s] EXCEPT !.current_image_index = @ - 1],
                    previous_image(st[s], variant, file), TRUE, file, obs[s])
        /\ UNCHANGED Globals

NextImage(file) ==
    LET s == active_side
    IN  /\ st[s].image_list # << >>
        /\ st[s].current_image_index < Len(st[s].image_list) - 1
        /\ LoadStep("next_image", s,
                    [st[s] EXCEPT !.current_image_index = @ + 1],
                    next_image(st[s], variant, file), TRUE, file, obs[s])
        /\ UNCHANGED Globals

JumpToImage(n, file) ==
    LET s == active_side
    IN  /\ jump_accepted(st[s], variant, n)
        /\ LoadStep("jump_to_image", s,
                    [st[s] EXCEPT !.current_image_index = jump_target(st[s], variant, n)],
                    jump_to_image(st[s], variant, n, file), TRUE, file, obs[s])
        /\ UNCHANGED Globals

OnImageSelect(i, file) ==
    /\ variant # "dual"
    /\ i < Len(st["left"].image_list)
    /\ LoadStep("on_image_select", "left",
                [st["left"] EXCEPT !.current_image_index = i],
                on_image_select(st["left"], variant, i, file), TRUE, file, obs["left"])
    /\ UNCHANGED Globals

SetMode(mode) ==
    /\ pointer = "none"
    /\ mode # edit_mode
    /\ edit_mode' = mode
    /\ last' = Seen("set_mode", "left", InitSide, InitSide, NoLoad)
    /\ UNCHANGED <<objects, auto_save_job, variant, st, format_mode, drag_state_saved, active_side,
                   clipboard_coords, pointer, obs>>

\* <Tab>, or a radio button of the other side, in the dual labeler
SwitchActiveSide ==
    /\ variant = "dual"
    /\ active_side' = IF active_side = "left" THEN "right" ELSE "left"
    /\ last' = Seen("switch_active_side", "left", InitSide, InitSide, NoLoad)
    /\ obs' = [obs EXCEPT !.count = @ + 1]
    /\ UNCHANGED <<objects, auto_save_job, variant, st, edit_mode, format_mode, drag_state_saved,
                   clipboard_coords, pointer>>

FormatModeChange(new_mode) ==
    /\ pointer = "none"
    /\ variant # "v1"
    /\ new_mode # format_mode
    /\ format_mode' = new_mode
    /\ st' = [s \in Sides |->
                 IF s \in UsedSides
                 THEN on_format_mode_change(st[s], variant, format_mode, new_mode)
                 ELSE st[s]]
    /\ last' = Seen("on_format_mode_change", active_side,
                    st[active_side], st'[active_side], NoLoad)
    /\ obs' = [obs EXCEPT !.left = TrailOther(@, st["left"], st'["left"]),
                          !.right = TrailOther(@, st["right"], st'["right"]),
                          !.count = @ + 1]
    /\ UNCHANGED <<objects, auto_save_job, variant, edit_mode, drag_state_saved, active_side,
                   clipboard_coords, pointer>>

\* <Button-1> on the canvas of side s
PointerDown(s, x, y, vis) ==
    /\ pointer = "none"
    /\ s \in UsedSides
    /\ LET d2 == on_canvas_click(st[s], variant, edit_mode, format_mode, x, y, vis)
       IN  EditStep("on_canvas_click", s, d2,
                    [TrailCommand(obs[s], st[s], d2) EXCEPT !.gdrags = 0])
    /\ pointer' = s
    /\ active_side' = IF variant = "dual" THEN s ELSE active_side
    /\ UNCHANGED <<objects, auto_save_job, variant, edit_mode, format_mode, drag_state_saved, clipboard_coords>>

\* <Button-1> on the canvas of side s of the dual labeler while the release
\* of the gesture on the other canvas has not been delivered
PointerDownUnreleased(s, x, y, vis) ==
    /\ variant = "dual"
    /\ pointer \in Sides \ {s}
    /\ LET d2 == on_canvas_click(st[s], variant, edit_mode, format_mode, x, y, vis)
       IN  EditStep("on_canvas_click", s, d2,
                    [TrailCommand(obs[s], st[s], d2) EXCEPT !.gdrags = 0])
    /\ pointer' = s
    /\ active_side' = s
    /\ UNCHANGED <<objects, auto_save_job, variant, edit_mode, format_mode, drag_state_saved, clipboard_coords>>

\* <B1-Motion>
PointerDrag(s, x, y) ==
    /\ pointer = s
    /\ LET d2 == on_canvas_drag(st[s], variant, edit_mode, format_mode,
                                drag_state_saved, x, y)
           counts == st[s].selected_keypoint # 0 /\ edit_mode = "move"
       IN  /\ st' = [st EXCEPT ![s] = d2]
           /\ last' = Seen("on_canvas_drag", s, st[s], d2, NoLoad)
           /\ obs' = [obs EXCEPT ![s] = TrailDrag(@, st[s], d2, counts)]
    /\ drag_state_saved' = drag_state_after_drag(st[s], edit_mode, drag_state_saved)
    /\ UNCHANGED <<objects, auto_save_job, variant, edit_mode, format_mode, active_side, clipboard_coords, pointer>>

\* <ButtonRelease-1>
PointerUp(s) ==
    /\ pointer = s
    /\ pointer' = "none"
    /\ st' = [st EXCEPT ![s] = on_canvas_release(st[s])]
    /\ drag_state_saved' = drag_state_after_release(drag_state_saved)
    /\ last' = Seen("on_canvas_release", s, InitSide, InitSide, NoLoad)
    /\ obs' = [obs EXCEPT ![s].gdrags = 0]
    /\ UNCHANGED <<objects, auto_save_job, variant, edit_mode, format_mode, active_side, clipboard_coords>>

\* <Button-3> in v2 and the choice of a visibility in the menu
RightClickVisibility(x, y, visibility) ==
    /\ pointer = "none"
    /\ variant = "v2"
    /\ LET d2 == on_canvas_right_click(st["left"], format_mode, x, y, visibility)
       IN  EditStep("set_keypoint_visibility", "left", d2,
                    TrailCommand(obs["left"], st["left"], d2))
    /\ UNCHANGED Globals

\* <Button-3> on a keypoint in the dual labeler and a choice in its menu
MenuVisibility(s, x, y, visibility) ==
    /\ pointer = "none"
    /\ variant = "dual"
    /\ format_mode = "coco"
    /\ find_nearest_keypoint(Keypoints(st[s]), x, y) # 0
    /\ LET d2 == set_keypoint_visibility(
                     st[s], find_nearest_keypoint(Keypoints(st[s]), x, y), visibility)
       IN  EditStep("set_keypoint_visibility", s, d2, TrailCommand(obs[s], st[s], d2))
    /\ UNCHANGED Globals

MenuCopyCoordinates(s, x, y) ==
    /\ pointer = "none"
    /\ variant = "dual"
    /\ find_nearest_keypoint(Keypoints(st[s]), x, y) # 0
    /\ ~clipboard_coords
    /\ clipboard_coords' = TRUE
    /\ last' = Seen("copy_coordinates_to_clipboard", s, InitSide, InitSide, NoLoad)
    /\ UNCHANGED <<objects, auto_save_job, variant, st, edit_mode, format_mode, drag_state_saved,
                   active_side, pointer, obs>>

MenuDelete(s, x, y) ==
    /\ pointer = "none"
    /\ variant = "dual"
    /\ find_nearest_keypoint(Keypoints(st[s]), x, y) # 0
    /\ LET d2 == delete_keypoint_at_index(
                     st[s], find_nearest_keypoint(Keypoints(st[s]), x, y))
       IN  EditStep("delete_keypoint_at_index", s, d2, TrailCommand(obs[s], st[s], d2))
    /\ UNCHANGED Globals

\* <Button-3> off every keypoint in the dual labeler and a choice in its menu
MenuPaste(s, x, y, vis) ==
    /\ pointer = "none"
    /\ variant = "dual"
    /\ find_nearest_keypoint(Keypoints(st[s]), x, y) = 0
    /\ clipboard_coords
    /\ LET d2 == paste_keypoint(st[s], format_mode, clipboard_coords, x, y, vis)
       IN  EditStep("paste_keypoint", s, d2, TrailOther(obs[s], st[s], d2))
    /\ UNCHANGED Globals

MenuClear(s, x, y) ==
    /\ pointer = "none"
    /\ variant = "dual"
    /\ find_nearest_keypoint(Keypoints(st[s]), x, y) = 0
    /\ LET d2 == clear_keypoints(st[s])
       IN  EditStep("clear_keypoints", s, d2, TrailCommand(obs[s], st[s], d2))
    /\ UNCHANGED Globals

\* the "Clear" button
ClearKeypoints ==
    /\ pointer = "none"
    /\ LET s == active_side
           d2 == clear_keypoints(st[s])
       IN  EditStep("clear_keypoints", s, d2, TrailCommand(obs[s], st[s], d2))
    /\ UNCHANGED Globals

\* Control-c, or the button
CopyFromPrevious ==
    /\ LET s == active_side
           d2 == copy_from_previous_frame(st[s], variant, format_mode)
       IN  EditStep("copy_from_previous_frame", s, d2, TrailCommand(obs[s], st[s], d2))
    /\ UNCHANGED Globals

\* the batch copy dialog of v1 and v2, closed with "Copy"
BatchCopy(n) ==
    /\ pointer = "none"
    /\ variant # "dual"
    /\ LET d2 == copy_batch(st["left"], n)
       IN  EditStep("copy_batch", "left", d2, TrailOther(obs["left"], st["left"], d2))
    /\ UNCHANGED Globals

\* Control-s
SaveAnnotations(s) ==
    /\ pointer = "none"
    /\ s \in UsedSides
    /\ format_mode = "standard"
    /\ st' = [st EXCEPT ![s] = save_annotations(st[s])]
    /\ last' = Seen("save_annotations", s, st[s], st'[s], NoLoad)
    /\ UNCHANGED <<objects, auto_save_job, variant, edit_mode, format_mode, drag_state_saved, active_side,
                   clipboard_coords, pointer, obs>>

\* The scheduled call of start_auto_save (root.after); disk is what the write
\* of auto_save meets. tried: the sides whose auto_save opened the file. The
\* next call comes auto_save_interval later, so no save is recent by then.
TimerTick(disk) ==
    /\ auto_save_job
    /\ LET checks == start_auto_save_checks(variant, st["left"], format_mode)
           tried == {s \in UsedSides :
                        /\ checks
                        /\ check_auto_save_calls(st[s], variant, format_mode)
                        /\ auto_save_writes(st[s], variant, format_mode)}
           raised == tried # {} /\ auto_save_raises(disk)
       IN  /\ st' = [s \in Sides |->
                        [(IF s \in UsedSides /\ checks
                          THEN check_auto_save(st[s], variant, format_mode, disk)
                          ELSE st[s]) EXCEPT !.last_save_recent = FALSE]]
           /\ auto_save_job' = start_auto_save_schedules(variant, st["left"],
                                                         format_mode, raised)
           /\ last' = [op |-> "start_auto_save", tried |-> tried, disk |-> disk,
                       raised |-> raised]
    /\ UNCHANGED <<objects, variant, edit_mode, format_mode, drag_state_saved,
                   active_side, clipboard_coords, pointer, obs>>

\* Control-z
Undo ==
    /\ LET s == active_side
           d2 == undo_action(st[s])
       IN  /\ st' = [st EXCEPT ![s] = d2]
           /\ last' = Seen("undo", s, st[s], d2, NoLoad)
           /\ obs' = [obs EXCEPT ![s] = TrailUndo(@, st[s], d2)]
    /\ UNCHANGED Globals

\* Control-y
Redo ==
    /\ LET s == active_side
           d2 == redo_action(st[s])
       IN  /\ st' = [st EXCEPT ![s] = d2]
           /\ last' = Seen("redo", s, st[s], d2, NoLoad)
           /\ obs' = [obs EXCEPT ![s] = TrailRedo(@, st[s], d2)]
    /\ UNCHANGED Globals

---------------------------------------------------------------------------
(* Editing one image list: SpecEdit *)

Modes == {"move", "add", "delete"}

FormatModes == {"standard", "coco"}

Xs == {0, 40}

Visibilities == {1, 2}

EditFolder == << <<"d">> >>

EditImages == << <<"e">>, <<"f">> >>

EditDocuments ==
    { << [image |-> <<"e">>, keypoints |-> << <<0, 0>> >>] >> }


\* room for one more entry in the list a click would append to
Room(s, cap) == edit_mode = "add" => Len(Keypoints(st[s])) < cap

\* the handlers, with a folder chosen on the sides of folder_sides only
NextEditOn(folder_sides) ==
    \/ \E s \in UsedSides \cap folder_sides :
          /\ obs.count = 0 /\ st[s].image_folder = None
          /\ SelectImageFolder(s, EditFolder, EditImages, "ok")
    \/ \E s \in {"left"}, document \in EditDocuments :
          /\ obs.count = 0 /\ ~st[s].annotations_data.loaded
          /\ ImportAnnotations(s, document, "ok")
    \/ PreviousImage("ok")
    \/ NextImage("ok")
    \/ \E mode \in Modes : SetMode(mode)
    \/ obs.count < MaxCmds /\ SwitchActiveSide
    \/ \E new_mode \in FormatModes : obs.count < MaxCmds /\ FormatModeChange(new_mode)
    \/ \E s \in Sides, x \in Xs, vis \in Visibilities :
          obs.count < MaxCmds /\ Room(s, MaxKps) /\ PointerDown(s, x, 0, vis)
    \/ \E s \in Sides, x \in Xs : obs[s].gdrags < MaxDrags /\ PointerDrag(s, x, 0)
    \/ \E s \in Sides : PointerUp(s)
    \/ \E x \in Xs, vis \in Visibilities :
          obs.count < MaxCmds /\ RightClickVisibility(x, 0, vis)
    \/ \E s \in Sides, x \in Xs, vis \in Visibilities :
          obs.count < MaxCmds /\ MenuVisibility(s, x, 0, vis)
    \/ \E s \in Sides, x \in Xs : MenuCopyCoordinates(s, x, 0)
    \/ \E s \in Sides, x \in Xs : obs.count < MaxCmds /\ MenuDelete(s, x, 0)
    \/ \E s \in Sides, x \in Xs, vis \in Visibilities :
          obs.count < MaxCmds /\ Len(Keypoints(st[s])) < MaxKps /\ MenuPaste(s, x, 0, vis)
    \/ \E s \in Sides, x \in Xs : obs.count < MaxCmds /\ MenuClear(s, x, 0)
    \/ obs.count < MaxCmds /\ ClearKeypoints
    \/ obs.count < MaxCmds /\ CopyFromPrevious
    \/ Undo
    \/ Redo

NextEdit == NextEditOn(Sides)

SpecEdit == Init /\ [][NextEdit]_vars

\* the trails followed; the right side of the dual labeler stays without folder
NextUndo == NextEditOn({"left"})

SpecUndo == InitTrails /\ [][NextUndo]_vars

---------------------------------------------------------------------------
(* A long run of edits on one record: SpecCap. Points are added to the     *)
(* empty list and the list is cleared again, so that successive snapshots  *)
(* differ.                                                                 *)

NextCap ==
    \/ /\ st["left"].image_folder = None
       /\ SelectImageFolder("left", EditFolder, EditImages, "ok")
    \/ edit_mode = "move" /\ SetMode("add")
    \/ /\ obs.count < CapCmds /\ edit_mode = "add"
       /\ HasCurrent(st["left"]) /\ Keypoints(st["left"]) = << >>
       /\ PointerDown("left", 0, 0, default_visibility)
    \/ PointerUp("left")
    \/ /\ obs.count < CapCmds /\ active_side = "left"
       /\ Keypoints(st["left"]) # << >>
       /\ ClearKeypoints
    \/ pointer = "none" /\ Undo
    \/ pointer = "none" /\ Redo

SpecCap == InitTrails /\ [][NextCap]_vars

---------------------------------------------------------------------------
(* Calls of the functions that depend on their arguments only. The state   *)
(* is the one after construction; last holds the arguments, and after the  *)
(* call the results with them.                                             *)

InitCall(calls, variants) ==
    /\ variant \in variants
    /\ st = [s \in Sides |-> InitSide]
    /\ edit_mode = "move"
    /\ format_mode = "standard"
    /\ drag_state_saved = FALSE
    /\ active_side = "left"
    /\ clipboard_coords = FALSE
    /\ pointer = "none"
    /\ auto_save_job = start_auto_save_schedules(variant, InitSide, "standard", FALSE)
    /\ objects = NoObjects
    /\ last \in calls
    /\ obs = [count |-> 0, trails |-> FALSE, left |-> InitObsSide, right |-> InitObsSide]

\* the sequences over alphabet of length n at most
StringsUpTo(alphabet, n) == UNION {[1..k -> alphabet] : k \in 0..n}

---------------------------------------------------------------------------
(* match_annotation_path on pairs of paths: SpecMatch *)

PathAlphabet == {"a", "b", "/", "\\"}

FramesPath ==
    <<"f", "r", "a", "m", "e", "s", "/", "x", "/", "f", "1", ".", "j", "p", "g">>

DLFramesPath == <<"D", "L", "/">> \o FramesPath

\* the paths tried: every short path, None (<< >>) among them, and two long ones
MatchPaths == StringsUpTo(PathAlphabet, MaxPathLen) \cup {FramesPath, DLFramesPath}

MatchCalls == {[op |-> "paths", a |-> a, b |-> b] : a \in MatchPaths, b \in MatchPaths}

CallMatch ==
    /\ last.op = "paths"
    /\ last' = [op |-> "match_annotation_path", a |-> last.a, b |-> last.b,
                ab |-> match_annotation_path(last.a, last.b),
                ba |-> match_annotation_path(last.b, last.a)]
    /\ UNCHANGED <<objects, auto_save_job, variant, st, edit_mode, format_mode, drag_state_saved,
                   active_side, clipboard_coords, pointer, obs>>

NextMatch == CallMatch

SpecMatch == InitCall(MatchCalls, {"v1", "v2"}) /\ [][NextMatch]_vars

---------------------------------------------------------------------------
(* Images against the records of an imported document: SpecResolve. The    *)
(* folder holds a/b/f and a/ze (the sorted list load_image_list builds);   *)
(* it is either a plain folder d or the folder images/c.                   *)

ResolveFolders == { << <<"d">> >>, <<ImagesDir, <<"c">> >> }

ResolveImages == << <<"a", "/", "b", "/", "f">>, <<"a", "/", "z", "e">> >>

\* another folder: a/b/f and x/f, two images with one filename
SharedNameImages == << <<"a", "/", "b", "/", "f">>, <<"x", "/", "f">> >>

\* the image paths a record of the document may be stored under
ResolvePaths ==
    { <<"b", "/", "f">>, <<"x", "/", "f">>, <<"a", "/", "b", "/", "f">>,
      <<"c", "/", "a", "/", "b", "/", "f">>, <<"a", "\\", "b", "\\", "f">>,
      <<"z", "e">>, <<"e">> }

\* documents of one or two records stored under different paths
ResolveDocuments ==
    { << [image |-> p, keypoints |-> << <<0, 0>> >>] >> : p \in ResolvePaths }
    \cup { << [image |-> p, keypoints |-> << <<0, 0>> >>],
              [image |-> q, keypoints |-> << <<0, 0>> >>] >> :
            <<p, q>> \in {pq \in ResolvePaths \X ResolvePaths :
                              normalize_path(pq[1]) # normalize_path(pq[2])} }

NextResolve ==
    \/ \E folder \in ResolveFolders :
          /\ st["left"].image_folder = None
          /\ SelectImageFolder("left", folder, ResolveImages, "ok")
    \/ \E folder \in ResolveFolders :
          /\ st["left"].image_folder = None
          /\ SelectImageFolder("left", folder, SharedNameImages, "ok")
    \/ \E document \in ResolveDocuments :
          /\ ~st["left"].annotations_data.loaded
          /\ ImportAnnotations("left", document, "ok")
    \/ PreviousImage("ok")
    \/ NextImage("ok")
    \/ obs.count < MaxCmds /\ ClearKeypoints
    \/ obs.count < MaxCmds /\ CopyFromPrevious
    \/ \E n \in 1..2 : obs.count < MaxCmds /\ BatchCopy(n)

SpecResolve == Init /\ [][NextResolve]_vars


---------------------------------------------------------------------------
(* Edits of a record of any shape: SpecPoints. The imported document holds *)
(* one record, for the first image, whose list is any list of at most      *)
(* MaxPoints entries among: None, a plain point, a point with a visibility *)
(* and a point with a third element that is no visibility.                 *)

PointEntries == {None, <<5, 5>>, <<15, 15, 1>>, <<5, 5, 7>>}

PointLists == StringsUpTo(PointEntries, MaxPoints)

PointDocuments == { << [image |-> <<"e">>, keypoints |-> kps] >> : kps \in PointLists }

\* where the pointer is pressed and dragged to
ClickPoints == {<<5, 5>>, <<15, 15>>}

NextPoints ==
    \/ /\ st["left"].image_folder = None
       /\ SelectImageFolder("left", EditFolder, EditImages, "ok")
    \/ \E document \in PointDocuments :
          /\ ~st["left"].annotations_data.loaded
          /\ ImportAnnotations("left", document, "ok")
    \/ \E mode \in Modes : SetMode(mode)
    \/ \E new_mode \in FormatModes : obs.count < MaxPointCmds /\ FormatModeChange(new_mode)
    \/ \E p \in ClickPoints, vis \in Visibilities :
          obs.count < MaxPointCmds /\ Room("left", MaxPoints)
              /\ PointerDown("left", p[1], p[2], vis)
    \/ \E p \in ClickPoints :
          obs["left"].gdrags < MaxDrags /\ PointerDrag("left", p[1], p[2])
    \/ PointerUp("left")
    \/ \E p \in ClickPoints :
          obs.count < MaxPointCmds /\ MenuDelete("left", p[1], p[2])

SpecPoints == Init /\ [][NextPoints]_vars

---------------------------------------------------------------------------
(* Batch copies over a list of three images: SpecBatch (v1 and v2; the     *)
(* dual labeler has no batch copy). The records of the document are told   *)
(* apart by their keypoints.                                               *)

BatchImages == << <<"a", "/", "b", "/", "f">>, <<"m">>, <<"x", "/", "f">> >>

BatchPaths == { <<"a", "/", "b", "/", "f">>, <<"b", "/", "f">>, <<"m">>, <<"x", "/", "f">> }

BatchDocuments ==
    { << [image |-> p, keypoints |-> << <<0, 0>> >>] >> : p \in BatchPaths }
    \cup { << [image |-> p, keypoints |-> << <<0, 0>> >>],
              [image |-> q, keypoints |-> << <<40, 0>> >>] >> :
            <<p, q>> \in {pq \in BatchPaths \X BatchPaths : pq[1] # pq[2]} }

\* the numbers typed into the dialog
BatchCounts == 0..MaxBatch

InitBatch == InitWith(FALSE) /\ variant # "dual"

NextBatch ==
    \/ /\ st["left"].image_folder = None
       /\ SelectImageFolder("left", EditFolder, BatchImages, "ok")
    \/ \E document \in BatchDocuments :
          /\ ~st["left"].annotations_data.loaded
          /\ ImportAnnotations("left", document, "ok")
    \/ PreviousImage("ok")
    \/ NextImage("ok")
    \/ \E n \in BatchCounts : obs.count < MaxCmds /\ BatchCopy(n)

SpecBatch == InitBatch /\ [][NextBatch]_vars

---------------------------------------------------------------------------
(* export_to_coco, a function of the document: SpecExport. Coordinates are *)
(* whole numbers here, and float(x) of a whole number is that number.      *)

\* [x, y, v] of a present entry; v is 2 for an entry without a third element
CocoTriple(kp) == <<kp[1], kp[2], IF Len(kp) >= 3 THEN kp[3] ELSE 2>>

\* coco_keypoints: the triples of the entries of length two or more, in order
RECURSIVE CocoKeypoints(_)
CocoKeypoints(keypoints) ==
    IF keypoints = << >> THEN << >>
    ELSE (IF Len(Head(keypoints)) >= 2 THEN CocoTriple(Head(keypoints)) ELSE << >>)
             \o CocoKeypoints(Tail(keypoints))

\* the place of img_path in image_id_map, 0 when it is not there
ImageId(images, img_path) ==
    IF \E i \in 1..Len(images) : images[i] = img_path
    THEN CHOOSE i \in 1..Len(images) : images[i] = img_path
    ELSE 0

\* The loop over the records: a record without image path is skipped, the
\* image entry is made on the first record of a path, and the annotation is
\* emitted when the record has a present keypoint.
RECURSIVE export_loop(_, _, _)
export_loop(anns, images, out) ==
    IF anns = << >> THEN [images |-> images, annotations |-> out]
    ELSE LET ann == Head(anns)
             images2 == IF ImageId(images, ann.image) = 0
                        THEN Append(images, ann.image) ELSE images
             coco_keypoints == CocoKeypoints(ann.keypoints)
         IN  IF ann.image = None THEN export_loop(Tail(anns), images, out)
             ELSE IF coco_keypoints = << >> THEN export_loop(Tail(anns), images2, out)
             ELSE export_loop(Tail(anns), images2,
                      Append(out, [image_id |-> ImageId(images2, ann.image),
                                   keypoints |-> coco_keypoints,
                                   num_keypoints |-> Len(ann.keypoints)]))

\* export_to_coco with a file chosen in the dialog. len(kp) of a None entry
\* raises inside the try block, before the file is opened: the export ends
\* with "Failed to export to COCO format" and writes nothing.
export_to_coco(annotations_data) ==
    LET anns == annotations_data.annotations
        raises == \E i \in 1..Len(anns) :
                     anns[i].image # None /\ HasNone(anns[i].keypoints)
    IN  IF ~annotations_data.loaded \/ raises
        THEN [written |-> FALSE, images |-> << >>, annotations |-> << >>]
        ELSE [written |-> TRUE,
              images |-> export_loop(anns, << >>, << >>).images,
              annotations |-> export_loop(anns, << >>, << >>).annotations]

\* a loop that advances annotation_id with every record that has a path
RECURSIVE export_ids_counting(_, _, _, _, _)
export_ids_counting(anns, image_id_map, image_id, annotation_id, out) ==
    IF anns = << >> THEN out
    ELSE LET ann == Head(anns)
             new == ~DictHas(image_id_map, ann.image)
             map2 == IF new THEN DictPut(image_id_map, ann.image, image_id)
                     ELSE image_id_map
             emits == CocoKeypoints(ann.keypoints) # << >>
         IN  IF ann.image = None
             THEN export_ids_counting(Tail(anns), image_id_map, image_id, annotation_id, out)
             ELSE export_ids_counting(Tail(anns), map2,
                      IF new THEN image_id + 1 ELSE image_id,
                      annotation_id + 1,
                      [images |-> IF new THEN Append(out.images,
                                          [id |-> image_id, file_name |-> ann.image])
                                  ELSE out.images,
                       annotations |-> IF emits THEN Append(out.annotations,
                                          [id |-> annotation_id,
                                           image_id |-> DictGet(map2, ann.image),
                                           image |-> ann.image])
                                       ELSE out.annotations])

\* The ids the loop of export_to_coco gives: image_id_map, and the counters
\* image_id and annotation_id, which start at 1. An entry of images is made
\* when a path is met first; annotation_id advances when an annotation is
\* emitted. image is the path of the record the annotation was made from.
RECURSIVE export_ids(_, _, _, _, _)
export_ids(anns, image_id_map, image_id, annotation_id, out) ==
    IF anns = << >> THEN out
    ELSE LET ann == Head(anns)
             new == ~DictHas(image_id_map, ann.image)
             map2 == IF new THEN DictPut(image_id_map, ann.image, image_id)
                     ELSE image_id_map
             emits == CocoKeypoints(ann.keypoints) # << >>
         IN  IF ann.image = None
             THEN export_ids(Tail(anns), image_id_map, image_id, annotation_id, out)
             ELSE export_ids(Tail(anns), map2,
                      IF new THEN image_id + 1 ELSE image_id,
                      IF emits THEN annotation_id + 1 ELSE annotation_id,
                      [images |-> IF new THEN Append(out.images,
                                          [id |-> image_id, file_name |-> ann.image])
                                  ELSE out.images,
                       annotations |-> IF emits THEN Append(out.annotations,
                                          [id |-> annotation_id,
                                           image_id |-> DictGet(map2, ann.image),
                                           image |-> ann.image])
                                       ELSE out.annotations])

ExportEntries == {None, <<1, 1, 2>>, <<3, 3, 0>>, <<5, 5>>}

ExportLists == StringsUpTo(ExportEntries, MaxPoints)

ExportDocuments ==
    { << [image |-> <<"e">>, keypoints |-> kps] >> : kps \in ExportLists }
    \cup { << [image |-> <<"e">>, keypoints |-> kps],
              [image |-> <<"f">>, keypoints |-> << <<5, 5>> >>] >> : kps \in ExportLists }

\* documents of up to three records, stored under e, f or no path, with or
\* without a keypoint
IdDocuments ==
    LET records == {[image |-> p, keypoints |-> k] :
                       p \in {None, <<"e">>, <<"f">>}, k \in {<< >>, << <<5, 5>> >>}}
    IN  {<<r>> : r \in records} \cup {<<r, q>> : r \in records, q \in records}
            \cup {<<r, q, t>> : r \in records, q \in records, t \in records}

ExportCalls ==
    {[op |-> "document", annotations |-> doc] : doc \in ExportDocuments \cup IdDocuments}

CallExport ==
    /\ last.op = "document"
    /\ last' = [op |-> "export_to_coco", annotations |-> last.annotations,
                coco |-> export_to_coco([loaded |-> TRUE,
                                         annotations |-> last.annotations]),
                ids |-> export_ids(last.annotations, << >>, 1, 1,
                                   [images |-> << >>, annotations |-> << >>])]
    /\ UNCHANGED <<objects, auto_save_job, variant, st, edit_mode, format_mode, drag_state_saved,
                   active_side, clipboard_coords, pointer, obs>>

NextExport == CallExport

SpecExport == InitCall(ExportCalls, Variants) /\ [][NextExport]_vars

---------------------------------------------------------------------------
(* Import, navigation and save without an edit: SpecSave. The document has *)
(* a record for the first image, with a list of any shape (None, a point,  *)
(* a point with visibility, an entry too short to be a point), and maybe a *)
(* record stored as x/f for the second image f.                            *)

SaveEntries == {None, <<5, 5>>, <<15, 15, 1>>, <<7>>}

SaveDocuments ==
    { << [image |-> <<"e">>, keypoints |-> kps] >> :
          kps \in StringsUpTo(SaveEntries, MaxPoints) }
    \cup { << [image |-> <<"e">>, keypoints |-> kps],
              [image |-> <<"x", "/", "f">>, keypoints |-> << <<5, 5>> >>] >> :
            kps \in StringsUpTo(SaveEntries, MaxPoints) }

NextSave ==
    \/ /\ st["left"].image_folder = None
       /\ SelectImageFolder("left", EditFolder, EditImages, "ok")
    \/ \E document \in SaveDocuments :
          /\ ~st["left"].annotations_data.loaded
          /\ ImportAnnotations("left", document, "ok")
    \/ \E document \in SaveDocuments :
          /\ ~st["left"].annotations_data.loaded
          /\ ImportAnnotationsInfo("left", document, <<9, 9>>)
    \/ PreviousImage("ok")
    \/ NextImage("ok")
    \/ SaveAnnotations("left")

SpecSave == Init /\ [][NextSave]_vars

---------------------------------------------------------------------------
(* The two sides of the dual labeler, each with its folder and its         *)
(* annotation file: SpecSides                                              *)

InitSides == Init /\ variant = "dual"

NextSides ==
    \/ \E s \in Sides :
          /\ obs.count = 0 /\ st[s].image_folder = None
          /\ SelectImageFolder(s, EditFolder, EditImages, "ok")
    \/ \E s \in Sides, document \in EditDocuments :
          /\ obs.count = 0 /\ ~st[s].annotations_data.loaded
          /\ ImportAnnotations(s, document, "ok")
    \/ NextImage("ok")
    \/ \E mode \in Modes : SetMode(mode)
    \/ obs.count < MaxCmds /\ SwitchActiveSide
    \/ obs.count < MaxCmds /\ FormatModeChange("coco")
    \/ \E s \in Sides :
          obs.count < MaxCmds /\ Room(s, MaxKps) /\ PointerDown(s, 0, 0, default_visibility)
    \/ \E s \in Sides : obs[s].gdrags < MaxDrags /\ PointerDrag(s, 40, 0)
    \/ \E s \in Sides : PointerUp(s)
    \/ \E s \in Sides : obs.count < MaxCmds /\ MenuVisibility(s, 0, 0, 1)
    \/ \E s \in Sides : obs.count < MaxCmds /\ MenuDelete(s, 0, 0)
    \/ obs.count < MaxCmds /\ ClearKeypoints
    \/ obs.count < MaxCmds /\ CopyFromPrevious
    \/ Undo
    \/ Redo
    \/ \E s \in Sides : st[s].annotation_file # None /\ SaveAnnotations(s)

SpecSides == InitSides /\ [][NextSides]_vars

---------------------------------------------------------------------------
(* Imports that fail, between imports that succeed and edits: SpecImport.  *)
(* After a failure that left the index of v1 or v2 with records of no      *)
(* document the run is not followed further.                               *)

ImportFailures == {"unreadable", "malformed", "top_level"}

FailureKept ==
    last.op = "import_annotations_failed" => st[last.side] = last.before

NextImport ==
    \/ \E s \in UsedSides :
          /\ FailureKept /\ st[s].image_folder = None
          /\ SelectImageFolder(s, EditFolder, EditImages, "ok")
    \/ \E s \in UsedSides, document \in EditDocuments :
          /\ FailureKept /\ ~st[s].annotations_data.loaded
          /\ ImportAnnotations(s, document, "ok")
    \/ FailureKept /\ NextImage("ok")
    \/ FailureKept /\ edit_mode = "move" /\ SetMode("add")
    \/ \E s \in Sides :
          /\ FailureKept /\ obs.count < MaxCmds /\ Room(s, MaxKps)
          /\ PointerDown(s, 40, 0, default_visibility)
    \/ \E s \in Sides : PointerUp(s)
    \/ \E s \in UsedSides, failure \in ImportFailures :
          FailureKept /\ ImportFails(s, failure)

SpecImport == Init /\ [][NextImport]_vars

---------------------------------------------------------------------------
(* export_to_yolo and export_to_pascal_voc of v1 and v2, functions of the  *)
(* document: SpecLabels. The dual labeler has a placeholder for them.      *)

\* os.path.splitext(name)[0]: name up to its last dot, when a character that
\* is no dot stands before that dot; name itself otherwise
splitext_stem(name) ==
    LET dots == {i \in 1..Len(name) : name[i] = "."}
        dot == IF dots = {} THEN 0 ELSE CHOOSE i \in dots : \A k \in dots : k <= i
    IN  IF dot > 0 /\ \E i \in 1..(dot - 1) : name[i] # "."
        THEN SubSeq(name, 1, dot - 1) ELSE name

\* The loop over the records. files: the stems of the files opened for
\* writing under labels/ or annotations/, in the order of the writes. A
\* record without path or without keypoints is skipped. len(kp) of a None
\* entry raises: export_to_yolo has opened the file of the record by then,
\* export_to_pascal_voc has not.
RECURSIVE labels_loop(_, _, _, _)
labels_loop(anns, format, files, exported) ==
    IF anns = << >> THEN [files |-> files, exported |-> exported, raised |-> FALSE]
    ELSE LET ann == Head(anns)
             filename == splitext_stem(basename(ann.image))
         IN  IF ann.image = None \/ ann.keypoints = << >>
             THEN labels_loop(Tail(anns), format, files, exported)
             ELSE IF HasNone(ann.keypoints)
             THEN [files |-> IF format = "yolo" THEN Append(files, filename) ELSE files,
                   exported |-> exported, raised |-> TRUE]
             ELSE labels_loop(Tail(anns), format, Append(files, filename), exported + 1)

\* export_to_yolo and export_to_pascal_voc with a directory chosen in the
\* dialog; exported is the number that "Files exported" reports.
export_labels(annotations_data, format) ==
    IF ~annotations_data.loaded
    THEN [files |-> << >>, exported |-> 0, raised |-> FALSE]
    ELSE labels_loop(annotations_data.annotations, format, << >>, 0)

\* documents of one or two records, their images named f.j, f.p, a/f.j, e.j
LabelDocuments ==
    LET images == { <<"f", ".", "j">>, <<"f", ".", "p">>,
                    <<"a", "/", "f", ".", "j">>, <<"e", ".", "j">> }
        lists == { << >>, << <<5, 5>> >>, << None >> }
        records == {[image |-> i, keypoints |-> k] : i \in images, k \in lists}
    IN  {<<r>> : r \in records} \cup {<<r, q>> : r \in records, q \in records}

LabelCalls ==
    {[op |-> "labels", annotations |-> doc, format |-> f] :
        doc \in LabelDocuments, f \in {"yolo", "voc"}}

CallLabels ==
    /\ last.op = "labels"
    /\ last' = [op |-> "export_labels", annotations |-> last.annotations,
                format |-> last.format,
                out |-> export_labels([loaded |-> TRUE, annotations |-> last.annotations],
                                      last.format)]
    /\ UNCHANGED <<objects, auto_save_job, variant, st, edit_mode, format_mode, drag_state_saved,
                   active_side, clipboard_coords, pointer, obs>>

NextLabels == CallLabels

SpecLabels == InitCall(LabelCalls, {"v1", "v2"}) /\ [][NextLabels]_vars

---------------------------------------------------------------------------
(* The index of records after an import: SpecIndex. The records are stored *)
(* under f, x/f and a/b/f, three paths with one filename; the folder holds *)
(* a/b/f and x/f.                                                          *)

IndexDocuments ==
    LET paths == { <<"f">>, <<"x", "/", "f">>, <<"a", "/", "b", "/", "f">> }
        records == {[image |-> p, keypoints |-> << <<0, 0>> >>] : p \in paths}
    IN  {<<r>> : r \in records} \cup {<<r, q>> : r \in records, q \in records}

NextIndex ==
    \/ \E s \in UsedSides :
          /\ st[s].image_folder = None
          /\ SelectImageFolder(s, EditFolder, SharedNameImages, "ok")
    \/ \E s \in UsedSides, document \in IndexDocuments :
          /\ ~st[s].annotations_data.loaded
          /\ ImportAnnotations(s, document, "ok")
    \/ NextImage("ok")
    \/ PreviousImage("ok")

SpecIndex == Init /\ [][NextIndex]_vars

---------------------------------------------------------------------------
(* Copies from the previous image: SpecCopy. The folder holds e and f; the *)
(* record of e has a list of up to two entries, among them None, a point   *)
(* with and without visibility and a point left of the image.              *)

CopyDocuments ==
    LET entries == {None, <<5, 5>>, <<15, 15, 1>>, <<-5, 5>>}
        lists == {<<a>> : a \in entries} \cup {<<a, b>> : a \in entries, b \in entries}
    IN  { << [image |-> <<"e">>, keypoints |-> kps] >> : kps \in lists }

NextCopy ==
    \/ \E s \in {"left"} :
          /\ st[s].image_folder = None
          /\ SelectImageFolder(s, EditFolder, EditImages, "ok")
    \/ \E s \in {"left"}, document \in CopyDocuments :
          /\ ~st[s].annotations_data.loaded
          /\ ImportAnnotations(s, document, "ok")
    \/ NextImage("ok")
    \/ \E new_mode \in FormatModes : obs.count < MaxCmds /\ FormatModeChange(new_mode)
    \/ obs.count < MaxCmds /\ CopyFromPrevious

SpecCopy == Init /\ [][NextCopy]_vars

---------------------------------------------------------------------------
(* Navigation over images that load, are missing or cannot be decoded,     *)
(* with edits, undo and redo in between: SpecNav. A folder is selected     *)
(* again with the same images or with the first one only.                  *)

LoadFiles == {"ok", "missing", "corrupt"}

\* the numbers a jump is given: the two buttons of the dual labeler (0 and -1),
\* and for the dialog a number in range and one out of range
JumpNumbers == {-1, 0, 2, 3}

NextNav ==
    \/ \E images \in {EditImages, SubSeq(EditImages, 1, 1)}, file \in LoadFiles :
          /\ obs.count < MaxCmds
          /\ SelectImageFolder("left", EditFolder, images, file)
    \/ \E document \in EditDocuments, file \in LoadFiles :
          /\ ~st["left"].annotations_data.loaded
          /\ ImportAnnotations("left", document, file)
    \/ \E file \in LoadFiles : PreviousImage(file)
    \/ \E file \in LoadFiles : NextImage(file)
    \/ \E n \in JumpNumbers, file \in LoadFiles : JumpToImage(n, file)
    \/ \E i \in 0..1, file \in LoadFiles : OnImageSelect(i, file)
    \/ edit_mode = "move" /\ SetMode("add")
    \/ /\ obs.count < MaxCmds /\ Room("left", MaxKps)
       /\ PointerDown("left", 40, 0, default_visibility)
    \/ PointerUp("left")
    \/ Undo
    \/ Redo
    \/ SaveAnnotations("left")

SpecNav == Init /\ [][NextNav]_vars

---------------------------------------------------------------------------
(* The autosave timer: SpecAuto. Points are added to the record of the     *)
(* first image while the timer runs; a write of auto_save succeeds or      *)
(* fails. Tk runs a callback scheduled with after() once its time has      *)
(* come, and a disk that works is met again and again: weak fairness of    *)
(* the tick that meets it.                                                 *)

\* the documents the lists are loaded from: the keypoint list of each record
ObjectDocuments ==
    { << << <<0, 0>> >>, << >> >>,
      << << <<0, 0>> >>, << <<5, 5>>, <<7>> >>, << >> >> }

InitObjects ==
    /\ variant \in Variants
    /\ st = [s \in Sides |-> InitSide]
    /\ edit_mode = "move"
    /\ format_mode = "standard"
    /\ drag_state_saved = FALSE
    /\ active_side = "left"
    /\ clipboard_coords = FALSE
    /\ pointer = "none"
    /\ auto_save_job = start_auto_save_schedules(variant, InitSide, "standard", FALSE)
    /\ objects \in {json_load(lists) : lists \in ObjectDocuments}
    /\ last = [op |-> "import_annotations"]
    /\ obs = [count |-> 0, trails |-> FALSE, left |-> InitObsSide, right |-> InitObsSide]

ObjectStep(op, o2, flag) ==
    /\ objects' = Renumbered(o2)
    /\ drag_state_saved' = flag
    /\ last' = [op |-> op]
    /\ UNCHANGED <<variant, st, edit_mode, format_mode, active_side, clipboard_coords,
                   pointer, auto_save_job, obs>>

ClickAddObjects(x, y) ==
    /\ ~drag_state_saved /\ HasFree(objects, 1)
    /\ Len(objects.heap[CurrentList(objects)]) < MaxKps
    /\ ObjectStep("add", click_add_objects(objects, x, y), FALSE)

ClickDeleteObjects(idx) ==
    /\ ~drag_state_saved /\ HasFree(objects, 1)
    /\ idx <= Len(objects.heap[CurrentList(objects)])
    /\ ObjectStep("delete", click_delete_objects(objects, idx), FALSE)

DragObjects(idx, x, y) ==
    /\ HasFree(objects, 1)
    /\ idx <= Len(objects.heap[CurrentList(objects)])
    /\ ObjectStep("drag", on_canvas_drag_objects(objects, drag_state_saved, idx, x, y), TRUE)

ReleaseObjects ==
    /\ drag_state_saved
    /\ ObjectStep("release", objects, FALSE)

ClearObjects ==
    /\ ~drag_state_saved /\ HasFree(objects, 2)
    /\ ObjectStep("clear_keypoints", clear_keypoints_objects(objects), FALSE)

UndoObjects ==
    /\ objects.undo_stack # << >> /\ HasFree(objects, 2)
    /\ ObjectStep("undo", undo_action_objects(objects), drag_state_saved)

RedoObjects ==
    /\ objects.redo_stack # << >> /\ HasFree(objects, 2)
    /\ ObjectStep("redo", redo_action_objects(objects), drag_state_saved)

CopyFromPreviousObjects ==
    /\ ~drag_state_saved /\ HasFree(objects, 2)
    /\ ObjectStep("copy_from_previous",
                  copy_from_previous_objects(objects, variant, format_mode), FALSE)

CopyBatchObjects(n) ==
    /\ ~drag_state_saved /\ variant # "dual"
    /\ objects.heap[CurrentList(objects)] # << >>
    /\ objects.current < Len(objects.keypoints)
    /\ ObjectStep("copy_batch", copy_batch_objects(objects, 1, n), FALSE)

NavigateObjects(k) ==
    /\ ~drag_state_saved
    /\ k \in 1..Len(objects.keypoints)
    /\ k - objects.current \in {-1, 1}
    /\ ObjectStep("navigate", load_current_image_objects(objects, k), FALSE)

NextObjects ==
    \/ ClickAddObjects(40, 0)
    \/ ClickDeleteObjects(1)
    \/ DragObjects(1, 20, 0)
    \/ ReleaseObjects
    \/ ClearObjects
    \/ UndoObjects
    \/ RedoObjects
    \/ CopyFromPreviousObjects
    \/ \E n \in 1..2 : CopyBatchObjects(n)
    \/ \E k \in 1..3 : NavigateObjects(k)

SpecObjects == InitObjects /\ [][NextObjects]_vars

\* gestures on the two canvases of the dual labeler, a press on one of them
\* also before the release on the other has been delivered
NextGestures ==
    \/ \E s \in Sides :
          /\ obs.count = 0 /\ st[s].image_folder = None
          /\ SelectImageFolder(s, EditFolder, EditImages, "ok")
    \/ \E s \in Sides, document \in EditDocuments :
          /\ obs.count = 0 /\ ~st[s].annotations_data.loaded
          /\ ImportAnnotations(s, document, "ok")
    \/ \E s \in Sides, x \in Xs :
          obs.count < MaxGestures /\ PointerDown(s, x, 0, default_visibility)
    \/ \E s \in Sides, x \in Xs :
          obs.count < MaxGestures /\ PointerDownUnreleased(s, x, 0, default_visibility)
    \/ \E s \in Sides, x \in Xs : obs[s].gdrags < MaxDrags /\ PointerDrag(s, x, 0)
    \/ \E s \in Sides : PointerUp(s)

SpecGestures == InitSides /\ [][NextGestures]_vars

Disks == {"ok", "fails"}

NextAuto ==
    \/ \E s \in UsedSides :
          /\ st[s].image_folder = None
          /\ SelectImageFolder(s, EditFolder, EditImages, "ok")
    \/ \E s \in UsedSides, document \in EditDocuments :
          /\ ~st[s].annotations_data.loaded
          /\ ImportAnnotations(s, document, "ok")
    \/ SetMode("add")
    \/ \E new_mode \in FormatModes : obs.count < MaxCmds /\ FormatModeChange(new_mode)
    \/ \E s \in Sides :
          obs.count < MaxCmds /\ Room(s, MaxKps) /\ PointerDown(s, 40, 0, 2)
    \/ \E s \in Sides : PointerUp(s)
    \/ \E disk \in Disks : TimerTick(disk)

SpecAuto == Init /\ [][NextAuto]_vars /\ WF_vars(TimerTick("ok"))

---------------------------------------------------------------------------
(* Undo and redo after a run of commands *)

\* C1: on a record that has just become active, after k commands of the list
\* add, delete, drag gesture, set-visibility, clear, copy-from-previous with
\* no navigation in between, k undos give back the keypoint list the record
\* had when it became active, and k redos after them give back the list that
\* was there after the k-th command.
C1_UndoRedoRoundTrip ==
    \A s \in Sides :
        LET o == obs[s]
            k == Len(o.trail) - 1
        IN  k <= max_history =>
                /\ (o.phase = "undo" /\ o.n = k) => Keypoints(st[s]) = o.trail[1]
                /\ (o.phase = "redo" /\ o.n = k) => Keypoints(st[s]) = o.trail[k + 1]


---------------------------------------------------------------------------
(* Snapshots *)

\* the handlers that edit the keypoint list outside a drag gesture
ListCommands ==
    {"on_canvas_click", "set_keypoint_visibility", "delete_keypoint_at_index",
     "paste_keypoint", "clear_keypoints", "copy_from_previous_frame",
     "on_format_mode_change"}

\* C2: a command that changes the keypoint list of the active record pushes
\* exactly one snapshot, the list as it was just before the change, onto the
\* undo stack; no command changes the list without that push.
C2_ChangeIsSnapshotted ==
    [][\A s \in Sides :
          (/\ last'.op \in ListCommands
           /\ Keypoints(st'[s]) # Keypoints(st[s]))
          => st'[s].undo_stack = PushCap(st[s].undo_stack, Keypoints(st[s]))]_vars


\* C3: in a drag gesture (press in move mode, drag events, release) the first
\* drag event pushes one snapshot, the list as it was before the drag; the
\* following drag events of the gesture push nothing, the press and the
\* release push nothing, and the next gesture pushes its own snapshot.
C3_DragSnapshotsOnce ==
    [][\A s \in Sides :
          /\ (/\ last'.op = "on_canvas_drag" /\ last'.side = s
              /\ st[s].selected_keypoint # 0 /\ edit_mode = "move")
             => IF obs[s].gdrags = 0
                THEN st'[s].undo_stack = PushCap(st[s].undo_stack, Keypoints(st[s]))
                ELSE st'[s].undo_stack = st[s].undo_stack
          /\ (/\ last'.side = s
              /\ \/ last'.op = "on_canvas_release"
                 \/ last'.op = "on_canvas_click" /\ edit_mode = "move")
             => st'[s].undo_stack = st[s].undo_stack]_vars

\* two gestures moved the point of the imported record to 40 and back
C3_SecondGesture ==
    \E s \in Sides :
        /\ last.op = "on_canvas_drag" /\ last.side = s
        /\ st[s].undo_stack = << << <<0, 0>> >>, << <<40, 0>> >> >>
        /\ Keypoints(st[s]) = << <<0, 0>> >>

\* C4: right after a command that pushed a snapshot the redo stack is empty,
\* and a redo issued then changes nothing.
C4_EditClearsRedo ==
    [][/\ last'.snap => st'[last'.side].redo_stack = << >>
       /\ (last.snap /\ last'.op = "redo" /\ last'.side = last.side)
          => st'[last.side] = st[last.side]]_vars

\* a command pushed a snapshot while there was something to redo
C4_RedoDropped == last.snap /\ last.redo_len > 0

\* C6: undo with an empty undo stack, redo with an empty redo stack, and
\* either of them without an active record change nothing: the keypoint
\* list, both stacks and the unsaved-changes flag stay as they are.
C6_EmptyUndoRedo ==
    [][\A s \in Sides :
          /\ (/\ last'.op = "undo" /\ last'.side = s
              /\ (st[s].undo_stack = << >> \/ ~HasCurrent(st[s])))
             => st'[s] = st[s]
          /\ (/\ last'.op = "redo" /\ last'.side = s
              /\ (st[s].redo_stack = << >> \/ ~HasCurrent(st[s])))
             => st'[s] = st[s]]_vars

\* undo met an empty stack on a record with keypoints and something to redo
C6_UndoOnEmpty ==
    /\ last.op = "undo" /\ last.had
    /\ last.undo_len = 0 /\ last.redo_len > 0 /\ last.kps # << >>


---------------------------------------------------------------------------
(* The capacity of the history *)

\* C5: neither stack ever holds more than max_history entries; a snapshot
\* pushed onto a full undo stack evicts the oldest one, so after more than
\* max_history edits max_history undos empty the undo stack and lead back to
\* the state max_history edits ago (after 51 edits: the state after the
\* first edit), not to the original state.
C5_HistoryCapped ==
    \A s \in Sides :
        LET o == obs[s]
            k == Len(o.trail) - 1
        IN  /\ Len(st[s].undo_stack) <= max_history
            /\ Len(st[s].redo_stack) <= max_history
            /\ (o.phase = "undo" /\ k > max_history /\ o.n = max_history)
               => /\ Keypoints(st[s]) = o.trail[k - max_history + 1]
                  /\ st[s].undo_stack = << >>

\* max_history undos after max_history + 1 edits: the list is not the original one
C5_FiftyUndos ==
    LET o == obs["left"]
    IN  /\ o.phase = "undo" /\ o.n = max_history
        /\ Len(o.trail) = max_history + 2
        /\ Keypoints(st["left"]) # o.trail[1]
        /\ last.op = "undo"


---------------------------------------------------------------------------
(* The record of an image *)

\* C7: an image that was resolved before, with no import in between, resolves
\* to the same record again, and that second resolution appends no record,
\* whatever edits, navigation and batch copies came in between.
C7_ResolveTwice ==
    (last.load.ok /\ last.load.doc /\ last.load.prev # 0)
    => /\ st[last.side].current_annotation = last.load.prev
       /\ ~last.load.appended

\* C8: in a loaded document no image of the list has two records: at most
\* one record is stored under the path of the image.
C8_OneRecordPerImage ==
    \A s \in Sides :
        st[s].annotations_data.loaded =>
            \A n \in 1..Len(st[s].image_list) :
                \A i, j \in 1..Len(st[s].annotations_data.annotations) :
                    LET anns == st[s].annotations_data.annotations
                        rel == get_relative_path(st[s].image_list[n])
                    IN  (/\ normalize_path(anns[i].image) = rel
                         /\ normalize_path(anns[j].image) = rel) => i = j

\* the five strategies in the order spelled out, first hit wins; 0 on a miss
FiveStrategies(dict, rel, amp) ==
    LET one == IF DictHas(dict, amp) THEN DictGet(dict, amp) ELSE 0
        two == IF DictHas(dict, rel) THEN DictGet(dict, rel) ELSE 0
        three == IF DictHas(dict, basename(rel)) THEN DictGet(dict, basename(rel)) ELSE 0
        four == FirstMatch(dict, amp)
        five == FirstMatch(dict, rel)
    IN  IF one # 0 THEN one
        ELSE IF two # 0 THEN two
        ELSE IF three # 0 THEN three
        ELSE IF four # 0 THEN four
        ELSE five

\* C9: the record of a loaded image is the one found by the first of the
\* five strategies that hits: key images/-relative path, key folder-relative
\* path, key filename, first key matching the images/-relative path, first
\* key matching the folder-relative path; a record is created only when all
\* five miss.
C9_FirstHitOfFive ==
    (last.load.ok /\ last.load.doc)
    => LET r == FiveStrategies(last.load.dict, last.load.rel, last.load.amp)
       IN  IF r # 0
           THEN st[last.side].current_annotation = r /\ ~last.load.appended
           ELSE /\ last.load.appended
                /\ st[last.side].current_annotation
                      = Len(st[last.side].annotations_data.annotations)

\* the segments of ann are the last segments of img
IsSegmentSuffix(ann, img) ==
    /\ Len(split(ann)) <= Len(split(img))
    /\ LastParts(split(img), Len(split(ann))) = split(ann)

\* C10: an image whose path ends with the segments a record of the imported
\* document is stored under (image a/b/f, record b/f) resolves to that record
\* and gets no new record, whatever the other records and their order.
C10_SuffixRecordResolves ==
    (last.load.ok /\ last.load.doc)
    => LET imported == obs[last.side].imported
           S == {r \in 1..Len(imported) :
                    IsSegmentSuffix(normalize_path(imported[r]), last.load.rel)}
       IN  \A r \in S :
               S = {r} => /\ st[last.side].current_annotation = r
                          /\ ~last.load.appended


\* C11: two different images of the list never resolve to the same record,
\* whatever the imported document; in particular not two images that share
\* only their filename.
C11_NoCrossWiring ==
    \A s \in Sides :
        \A i, j \in 1..Len(obs[s].resolved) :
            (i # j /\ obs[s].resolved[i] # 0) => obs[s].resolved[i] # obs[s].resolved[j]


---------------------------------------------------------------------------
(* PathMatcher *)

\* C12: match is symmetric, match(a, b) = match(b, a) for all paths a and b,
\* the empty path and None included, and frames/x/f1.jpg matches
\* DL/frames/x/f1.jpg.
C12_MatchSymmetric ==
    last.op = "match_annotation_path"
    => /\ last.ab = last.ba
       /\ (last.a = FramesPath /\ last.b = DLFramesPath) => last.ab

\* a shorter path matched a longer one with another filename, by its ending
C12_MatchedByEnding ==
    /\ last.op = "match_annotation_path" /\ last.ab
    /\ Len(last.b) < Len(last.a)
    /\ basename(normalize_path(last.a)) # basename(normalize_path(last.b))


---------------------------------------------------------------------------
(* Editing the list of a record *)

\* the list of side s is kps with the entry at k taken out: the entries below
\* k stay, every entry above k is one place lower with the same content and,
\* being named by its place, under another name
ShiftedDown(kps, out, k) ==
    /\ Len(out) = Len(kps) - 1
    /\ \A i \in 1..(k - 1) : out[i] = kps[i]
    /\ \A j \in (k + 1)..Len(kps) : out[j - 1] = kps[j] /\ label(j - 1) # label(j)

\* C13: when a delete click of v1/v2, or the delete entry of the menu of the
\* dual labeler, deletes the keypoint at a place k that is not the last of the
\* list, the list gets one shorter, the entries below k are unchanged and
\* every entry above k moves one place down with identical content (and so
\* gets the label of that place). The scan of v1 and v2 raises on a None
\* entry before it deletes anything, so their lists here hold no None.
C13_DeleteShiftsDown ==
    [][\A p \in ClickPoints :
          LET d == st["left"]
              kps == Keypoints(d)
              k == NearestIndex(kps, p[1], p[2])
              by_click == /\ last'.op = "on_canvas_click" /\ edit_mode = "delete"
                          /\ st'["left"] = on_canvas_click(d, variant, "delete",
                                               format_mode, p[1], p[2], 1)
              by_menu == /\ last'.op = "delete_keypoint_at_index"
                         /\ st'["left"] = delete_keypoint_at_index(d, k)
          IN  (/\ by_click \/ by_menu
               /\ HasCurrent(d) /\ k # 0 /\ k < Len(kps)
               /\ variant # "dual" => ~HasNone(kps))
              => ShiftedDown(kps, Keypoints(st'["left"]), k)]_vars

\* a list of three lost its first entry and the two others moved down
C13_TwoMovedDown ==
    /\ last.op \in {"on_canvas_click", "delete_keypoint_at_index"}
    /\ Len(last.kps) = 3 /\ Len(Keypoints(st["left"])) = 2
    /\ last.kps[2] # last.kps[3] /\ last.kps[1] # last.kps[2]
    /\ Keypoints(st["left"]) = Tail(last.kps)


\* the entry carries a visibility value
HasVisibility(kp) == Len(kp) >= 3 /\ kp[3] \in {0, 1, 2}

\* C14: a drag that moves the selected keypoint changes nothing but the x and
\* y of that entry: the list keeps its length, every other entry is the same
\* and a visibility the entry carried is still there, whatever the format mode.
C14_DragKeepsVisibility ==
    [][LET kps == Keypoints(st["left"])
           out == Keypoints(st'["left"])
           sel == st["left"].selected_keypoint
       IN  (/\ last'.op = "on_canvas_drag" /\ edit_mode = "move"
            /\ sel # 0 /\ sel <= Len(kps))
           => /\ Len(out) = Len(kps)
              /\ \A i \in 1..Len(kps) : i # sel => out[i] = kps[i]
              /\ HasVisibility(kps[sel])
                    => HasVisibility(out[sel]) /\ out[sel][3] = kps[sel][3]]_vars


---------------------------------------------------------------------------
(* Copies from one frame to others *)

\* C16: copy-from-previous on the first image of the list ends with a
\* warning and leaves the keypoints of the record being edited, and those of
\* every record of the document, as they were.
C16_FirstImageRefused ==
    [][\A s \in Sides :
          (/\ last'.op = "copy_from_previous_frame" /\ last'.side = s
           /\ st[s].current_image_index = 0)
          => /\ copy_from_previous_message(st[s], variant) = "warning"
             /\ Keypoints(st'[s]) = Keypoints(st[s])
             /\ st'[s].annotations_data = st[s].annotations_data]_vars

\* the command was given on the first of two images, with a document loaded
\* and a record being edited
C16_CopyOnFirstImage ==
    /\ last.op = "copy_from_previous_frame" /\ last.had
    /\ st[last.side].current_image_index = 0
    /\ Len(st[last.side].image_list) = 2
    /\ st[last.side].annotations_data.loaded


\* C17: a copy-from-previous that copies nothing (no previous image, no
\* document, no record found for the previous image, or a previous record
\* with an empty list) changes nothing: the keypoints of the record being
\* edited, both stacks and the unsaved-changes flag are as before.
C17_FailedCopyIsNoOp ==
    [][\A s \in Sides :
          (/\ last'.op = "copy_from_previous_frame" /\ last'.side = s
           /\ copy_from_previous_message(st[s], variant) # "none")
          => /\ Keypoints(st'[s]) = Keypoints(st[s])
             /\ st'[s].undo_stack = st[s].undo_stack
             /\ st'[s].redo_stack = st[s].redo_stack
             /\ st'[s].unsaved_changes = st[s].unsaved_changes]_vars


\* the keypoints an image of the list has: those of the record it resolves to
ImageKeypoints(d, idx) ==
    IF ResolveImage(variant, d, idx) = 0 THEN << >>
    ELSE d.annotations_data.annotations[ResolveImage(variant, d, idx)].keypoints

\* C18: a batch copy of n frames from the image at index i of L gives the
\* keypoints of the record being edited to the images i+1 .. min(i+n, L-1),
\* to no other image, and reports the number of these images; with n <= 0
\* no record changes; the record being edited keeps its keypoints and no
\* snapshot is pushed.
C18_BatchCopiesRange ==
    [][\A n \in BatchCounts :
          LET d == st["left"]
              d2 == st'["left"]
              i == d.current_image_index
              L == Len(d.image_list)
              hi == Min(i + n, L - 1)
          IN  (/\ last'.op = "copy_batch" /\ d2 = copy_batch(d, n)
               /\ HasCurrent(d) /\ d.annotations_data.loaded /\ Keypoints(d) # << >>)
              => /\ n <= 0 => d2.annotations_data = d.annotations_data
                 /\ n > 0 =>
                       /\ copy_batch_copied(d, n) = Cardinality((i + 1)..hi)
                       /\ \A idx \in 0..(L - 1) :
                             ImageKeypoints(d2, idx) =
                                 IF idx \in (i + 1)..hi THEN Keypoints(d)
                                 ELSE ImageKeypoints(d, idx)
                 /\ Keypoints(d2) = Keypoints(d)
                 /\ d2.undo_stack = d.undo_stack /\ d2.redo_stack = d.redo_stack]_vars


---------------------------------------------------------------------------
(* Export and save *)

\* the entries of a list that are points
RECURSIVE Present(_)
Present(keypoints) ==
    IF keypoints = << >> THEN << >>
    ELSE (IF IsPoint(Head(keypoints)) THEN <<Head(keypoints)>> ELSE << >>)
             \o Present(Tail(keypoints))

\* C19: the COCO export of a document with a record whose list holds None
\* entries (and a point) is written, and has for that record an annotation
\* with the triples of its points, in order, and their number as
\* num_keypoints ([[1,1,2], None, [3,3,0]] gives [1,1,2,3,3,0] and 2).
C19_ExportSkipsNone ==
    last.op = "export_to_coco" =>
        \A r \in 1..Len(last.annotations) :
            LET ann == last.annotations[r]
            IN  (HasNone(ann.keypoints) /\ Present(ann.keypoints) # << >>)
                => /\ last.coco.written
                   /\ \E a \in 1..Len(last.coco.annotations) :
                         /\ last.coco.images[last.coco.annotations[a].image_id] = ann.image
                         /\ last.coco.annotations[a].keypoints
                                = CocoKeypoints(Present(ann.keypoints))
                         /\ last.coco.annotations[a].num_keypoints
                                = Len(Present(ann.keypoints))


\* C20: a document that was imported, whose images were visited and that is
\* saved with no edit in between is written as it was imported: every record
\* written has the keypoint list of the imported record at its place, null
\* and malformed entries included, and the list of records is the imported one.
C20_SaveKeepsDocument ==
    \A s \in Sides :
        (/\ last.op = "save_annotations" /\ last.side = s
         /\ st[s].annotations_data.loaded)
        => LET written == save_annotations_written(st[s])
               imported == obs[s].document
           IN  /\ \A r \in 1..Len(written) :
                     /\ r <= Len(imported)
                     /\ written[r].keypoints = imported[r].keypoints
               /\ written = imported


---------------------------------------------------------------------------
(* The annotated mark of an image *)

\* C21: for every image of the list, is_image_annotated is true exactly when
\* the record a load of the image would resolve to exists and has a keypoint
\* list that is not empty.
C21_AnnotatedAsResolved ==
    \A s \in Sides : \A idx \in 0..(Len(st[s].image_list) - 1) :
        st[s].image_folder # None =>
            is_image_annotated(st[s], variant, idx)
                = (/\ st[s].annotations_data.loaded
                   /\ ResolveImage(variant, st[s], idx) # 0
                   /\ ImageKeypoints(st[s], idx) # << >>)


---------------------------------------------------------------------------
(* Autosave *)

\* C22: whenever a document has unsaved changes and a file to save to in the
\* current format mode, an autosave of that document follows: the timer
\* writes it and the unsaved-changes flag is cleared, with no manual save.
C22_AutosaveHappens ==
    \A s \in Sides :
        (st[s].unsaved_changes /\ auto_save_writes(st[s], variant, format_mode))
            ~> (/\ last.op = "start_auto_save" /\ s \in last.tried
                /\ last.disk = "ok" /\ ~st[s].unsaved_changes)

(* C30: a failing autosave write is swallowed. On a timer tick whose write
   fails, no error reaches the user, every side whose write was attempted
   keeps its unsaved-changes flag and its document, the timer is scheduled
   again, and the next tick will attempt the same autosave again. *)
C30_FailedAutosaveSwallowed ==
    [][(last'.op = "start_auto_save" /\ last'.disk = "fails") =>
          /\ ~last'.raised
          /\ auto_save_job'
          /\ \A s \in last'.tried :
                /\ st'[s].unsaved_changes
                /\ st'[s].annotations_data = st[s].annotations_data
                /\ check_auto_save_calls(st'[s], variant', format_mode')
                /\ auto_save_writes(st'[s], variant', format_mode')]_vars

C30_WriteFailed ==
    /\ last.op = "start_auto_save"
    /\ last.disk = "fails"
    /\ \E s \in last.tried : st[s].unsaved_changes /\ auto_save_job

OtherSide(s) == IF s = "left" THEN "right" ELSE "left"

SideOps ==
    {"on_canvas_click", "on_canvas_drag", "set_keypoint_visibility",
     "delete_keypoint_at_index", "clear_keypoints", "copy_from_previous_frame",
     "undo", "redo", "save_annotations"}

(* C23: in the dual labeler the two sides are independent. Add, delete,
   drag-move, set-visibility, clear, copy-from-previous, undo, redo and save
   applied to one side leave the other side's document, active record,
   keypoints, undo stack, redo stack, image index, index of records and
   unsaved-changes flag unchanged. *)
C23_OtherSideUnchanged ==
    [][(variant = "dual" /\ last'.op \in SideOps) =>
          LET o == OtherSide(last'.side)
          IN  /\ st'[o].annotations_data = st[o].annotations_data
              /\ st'[o].annotation_dict = st[o].annotation_dict
              /\ st'[o].current_annotation = st[o].current_annotation
              /\ st'[o].temp_annotation = st[o].temp_annotation
              /\ Keypoints(st'[o]) = Keypoints(st[o])
              /\ st'[o].undo_stack = st[o].undo_stack
              /\ st'[o].redo_stack = st[o].redo_stack
              /\ st'[o].current_image_index = st[o].current_image_index
              /\ st'[o].unsaved_changes = st[o].unsaved_changes]_vars

C23_EditedBesideEdited ==
    /\ variant = "dual"
    /\ last.op \in SideOps \ {"save_annotations"}
    /\ Keypoints(st[last.side]) # last.kps
    /\ LET o == OtherSide(last.side)
       IN  /\ Keypoints(st[o]) # << >>
           /\ st[o].undo_stack # << >>
           /\ st[o].unsaved_changes

(* C24: a failed import of an annotation file leaves the loaded state
   untouched. After it the document, the index of records, the path of the
   annotation file and the current record are what they were before. *)
C24_FailedImportKeepsState ==
    last.op = "import_annotations_failed" =>
        LET d == st[last.side]
            b == last.before
        IN  /\ d.annotations_data = b.annotations_data
            /\ d.annotation_dict = b.annotation_dict
            /\ d.annotation_file = b.annotation_file
            /\ d.current_annotation = b.current_annotation
            /\ d.temp_annotation = b.temp_annotation

(* C25: the YOLO and the Pascal VOC export write one file for each exported
   record. No two records are written to the same file, and the number of
   files produced is the number of exported records that is reported. *)
C25_OneFilePerRecord ==
    last.op = "export_labels" =>
        LET files == last.out.files
        IN  /\ \A i \in 1..Len(files), k \in 1..Len(files) :
                  files[i] = files[k] => i = k
            /\ ~last.out.raised =>
                  Cardinality({files[i] : i \in 1..Len(files)}) = last.out.exported

\* the first record of document, in its order, stored under a path with filename
FirstWithName(document, filename) ==
    LET S == {i \in 1..Len(document) :
                 /\ document[i].image # None
                 /\ basename(normalize_path(document[i].image)) = filename}
    IN  CHOOSE i \in S : \A k \in S : i <= k

(* C26: after the import of a document the index of records maps every
   filename to the first record of the document, in its order, whose stored
   path has that filename, also when a later record is stored under the bare
   filename. *)
C26_FilenameToFirstRecord ==
    last.op = "import_annotations" =>
        LET document == obs[last.side].document
            dict == st[last.side].annotation_dict
        IN  \A i \in 1..Len(document) :
                document[i].image # None =>
                    LET filename == basename(normalize_path(document[i].image))
                    IN  /\ DictHas(dict, filename)
                        /\ DictGet(dict, filename) = FirstWithName(document, filename)

(* C27: after a load that resolved the image to a record the document already
   had, the image field of that record is the normalized path of the image
   relative to the selected folder, and the index of records holds the record
   under that path. *)
C27_ResolvedRecordIndexed ==
    (last.load.ok /\ last.load.doc /\ ~last.load.appended) =>
        LET d == st[last.side]
            r == d.current_annotation
        IN  /\ r > 0
            /\ d.annotations_data.annotations[r].image = last.load.rel
            /\ DictHas(d.annotation_dict, last.load.rel)
            /\ DictGet(d.annotation_dict, last.load.rel) = r

\* what a copy is to install for the entry kp of the previous record
CopiedEntry(kp, fmt) ==
    IF kp = None THEN None
    ELSE IF kp[1] < 0 \/ kp[2] < 0 THEN None
    ELSE IF Len(kp) >= 3 THEN kp
    ELSE IF fmt = "coco" THEN <<kp[1], kp[2], default_visibility>>
    ELSE <<kp[1], kp[2]>>

(* C28: a successful copy from the previous image installs a list as long
   as the list of the previous record in which, place by place, None stays
   None, an entry with a negative coordinate becomes None, an entry with
   visibility is kept, and an entry without visibility becomes
   [x, y, default_visibility] in COCO mode and [x, y] in standard mode; the
   previous record is unchanged. *)
C28_CopyCleansEntries ==
    [][\A s \in Sides :
          (/\ last'.op = "copy_from_previous_frame" /\ last'.side = s
           /\ copy_from_previous_message(st[s], variant) = "none") =>
              LET r == PreviousRecord(st[s], variant)
                  prev == st[s].annotations_data.annotations[r].keypoints
                  new == Keypoints(st'[s])
              IN  /\ Len(new) = Len(prev)
                  /\ \A i \in 1..Len(prev) : new[i] = CopiedEntry(prev[i], format_mode)
                  /\ st'[s].annotations_data.annotations[r].keypoints = prev]_vars

\* the lowest index among the present keypoints nearest to (x, y), when that
\* distance is below the threshold; 0 for none
NearestPresent(kps, x, y) ==
    LET P == {i \in 1..Len(kps) : kps[i] # None /\ Len(kps[i]) >= 2}
        N == {i \in P : \A k \in P : DistSq(kps[i], x, y) <= DistSq(kps[k], x, y)}
    IN  IF N = {} THEN 0
        ELSE LET i == CHOOSE i \in N : \A k \in N : i <= k
             IN  IF DistSq(kps[i], x, y) < PickRadiusSq THEN i ELSE 0

(* C29: a click in move mode selects, and a click in delete mode deletes, the
   keypoint of lowest index among the present keypoints nearest to the click,
   when that distance is below the threshold, and none otherwise; None and
   malformed entries of the list are skipped without failing. *)
C29_NearestSkipsNone ==
    [][\A p \in ClickPoints :
          LET d == st["left"]
              kps == Keypoints(d)
              k == NearestPresent(kps, p[1], p[2])
          IN  (/\ last'.op = "on_canvas_click" /\ edit_mode \in {"move", "delete"}
               /\ HasCurrent(d)
               /\ st'["left"] = on_canvas_click(d, variant, edit_mode, format_mode,
                                                p[1], p[2], default_visibility))
              => /\ edit_mode = "move" => st'["left"].selected_keypoint = k
                 /\ edit_mode = "delete" =>
                       Keypoints(st'["left"]) = IF k = 0 THEN kps ELSE RemoveAt(kps, k)]_vars

(* C31: a manual save of a document with an info object sets num_images to
   the number of records and num_keypoints to the length of the longest
   keypoint list of the records, as they are when the file is written, and
   clears the unsaved-changes flag. A save without a document changes
   nothing. *)
C31_SaveUpdatesInfo ==
    [][\A s \in Sides :
          (last'.op = "save_annotations" /\ last'.side = s) =>
              LET anns == st[s].annotations_data.annotations
              IN  IF ~st[s].annotations_data.loaded THEN st'[s] = st[s]
                  ELSE /\ ~st'[s].unsaved_changes
                       /\ st'[s].annotations_data = st[s].annotations_data
                       /\ st[s].info # None =>
                             /\ st'[s].info[1] = Len(anns)
                             /\ \A i \in 1..Len(anns) :
                                   Len(anns[i].keypoints) <= st'[s].info[2]
                             /\ anns # << >> =>
                                   \E i \in 1..Len(anns) :
                                       Len(anns[i].keypoints) = st'[s].info[2]]_vars

C31_InfoRecomputed ==
    /\ last.op = "save_annotations"
    /\ st["left"].info = <<2, 3>>
    /\ Len(st["left"].annotations_data.annotations) = 2
    /\ ~st["left"].unsaved_changes

\* the paths of the records of document, each once, in the order in which
\* they occur first
RECURSIVE FirstSeen(_, _)
FirstSeen(document, seen) ==
    IF document = << >> THEN seen
    ELSE LET p == Head(document).image
         IN  FirstSeen(Tail(document),
                       IF p = None \/ \E i \in 1..Len(seen) : seen[i] = p
                       THEN seen ELSE Append(seen, p))

(* C32: in a COCO export the image ids are 1, 2, 3, ... given to the distinct
   image paths in the order of their first occurrence, the annotation ids are
   1, 2, 3, ... without gaps over the emitted annotations, the image_id of
   every annotation is the id of the entry of images with the path of its
   record, and a record without image path is skipped. *)
C32_ExportIds ==
    (last.op = "export_to_coco" /\ last.coco.written) =>
        LET images == last.ids.images
            annotations == last.ids.annotations
            paths == FirstSeen(last.annotations, << >>)
        IN  /\ Len(images) = Len(paths)
            /\ \A i \in 1..Len(images) :
                  images[i].id = i /\ images[i].file_name = paths[i]
            /\ \A a \in 1..Len(annotations) :
                  /\ annotations[a].id = a
                  /\ annotations[a].image # None
                  /\ \E i \in 1..Len(images) :
                        /\ images[i].id = annotations[a].image_id
                        /\ images[i].file_name = annotations[a].image
            /\ Len(annotations) =
                  Cardinality({r \in 1..Len(last.annotations) :
                                  /\ last.annotations[r].image # None
                                  /\ CocoKeypoints(last.annotations[r].keypoints) # << >>})

C32_IdsAfterSkips ==
    /\ last.op = "export_to_coco" /\ last.coco.written
    /\ Len(last.annotations) = 3
    /\ last.annotations[1].image # None /\ last.annotations[1].keypoints = << >>
    /\ last.annotations[2].image = None
    /\ Len(last.ids.annotations) = 1 /\ last.ids.annotations[1].id = 1
    /\ last.ids.annotations[1].image_id = 2

\* the entries of the two stacks of a side
StackEntries(d) ==
    {d.undo_stack[i] : i \in 1..Len(d.undo_stack)}
        \cup {d.redo_stack[i] : i \in 1..Len(d.redo_stack)}

(* C33: undo and redo never cross images. A load that completes empties both
   stacks, and so does every step after which another record is current;
   while a record stays current every entry the stacks get is the list of
   that record, and undo and redo install entries of its stacks only. *)
C33_StacksOfCurrentRecord ==
    [][\A s \in Sides :
          /\ ((last'.side = s /\ last'.load.ok)
                 \/ st'[s].current_annotation # st[s].current_annotation)
              => (st'[s].undo_stack = << >> /\ st'[s].redo_stack = << >>)
          /\ StackEntries(st'[s]) \subseteq StackEntries(st[s]) \cup {Keypoints(st[s])}
          /\ (last'.op \in {"undo", "redo"} /\ last'.side = s)
              => Keypoints(st'[s]) \in StackEntries(st[s]) \cup {Keypoints(st[s])}]_vars

C33_LoadEmptiedStacks ==
    /\ last.op = "next_image" /\ last.load.ok
    /\ last.undo_len > 0
    /\ st["left"].undo_stack = << >> /\ st["left"].redo_stack = << >>

(* C34: the unsaved-changes flag tracks the document. Every step that changes
   a loaded document (an edit, an undo, a redo, the rewriting of a stored
   path or the creation of a record by a load) leaves the flag set, so that a
   document that differs from what was written last has the flag set. *)
C34_ChangeSetsUnsaved ==
    [][\A s \in Sides :
          (/\ st[s].annotations_data.loaded /\ st'[s].annotations_data.loaded
           /\ last'.op # "import_annotations"
           /\ st'[s].annotations_data # st[s].annotations_data)
          => st'[s].unsaved_changes]_vars

\* whether the index of a side lies in its image list
IndexValid(d) ==
    0 <= d.current_image_index /\ d.current_image_index < Len(d.image_list)

(* C35: the current image index stays valid. Whenever the image list of a side
   is non-empty its index lies in 0..len-1, and previous at index 0 and next
   at the last index change nothing. *)
C35_IndexInRange ==
    \A s \in Sides :
        st[s].image_list # << >> =>
            /\ IndexValid(st[s])
            /\ \A file \in LoadFiles :
                   /\ st[s].current_image_index = 0
                        => previous_image(st[s], variant, file) = st[s]
                   /\ st[s].current_image_index = Len(st[s].image_list) - 1
                        => next_image(st[s], variant, file) = st[s]

\* whether the active record of a side is the one that the image at its index
\* resolves to: loading that image again would keep the active record
ActiveIsCurrent(d, v) ==
    LET again == load_current_image(d, v, "ok")
    IN  IF d.annotations_data.loaded
        THEN again.current_annotation = d.current_annotation
        ELSE /\ d.current_annotation = -1
             /\ d.temp_annotation.image = again.temp_annotation.image

(* C36: the active record always belongs to the current image. Whenever a side
   has an image at its index and an active record, that record is the one the
   image at the index resolves to, also after a navigation whose load failed. *)
C36_ActiveRecordOfCurrentImage ==
    \A s \in Sides :
        (st[s].image_list # << >> /\ IndexValid(st[s]) /\ HasCurrent(st[s])
         /\ st[s].image_folder # None)
            => ActiveIsCurrent(st[s], variant)

\* no list is referred to twice
Independent(o) ==
    \A i, j \in 1..Len(Holders(o)) : i # j => Holders(o)[i] # Holders(o)[j]

\* the contents of the first n lists of a sequence of references
Contents(o, refs, n) == [i \in 1..n |-> o.heap[refs[i]]]

(* C37: keypoint lists are never shared. After every handler no two of the
   records, undo entries and redo entries refer to the same list; a handler
   other than the batch copy leaves the keypoints of every record but the
   current one as they were, and every handler leaves the contents of the
   snapshots that stay on a stack as they were. *)
C37_ListsIndependent ==
    [][/\ Independent(objects')
       /\ last'.op # "copy_batch" =>
              \A k \in 1..Len(objects.keypoints) :
                  k # objects.current
                     => objects'.heap[objects'.keypoints[k]] = objects.heap[objects.keypoints[k]]
       /\ LET n == Min(Len(objects.undo_stack), Len(objects'.undo_stack))
              m == Min(Len(objects.redo_stack), Len(objects'.redo_stack))
          IN  /\ Contents(objects', objects'.undo_stack, n)
                    = Contents(objects, objects.undo_stack, n)
              /\ Contents(objects', objects'.redo_stack, m)
                    = Contents(objects, objects.redo_stack, m)]_vars

\* a drag has changed a list while a snapshot and a copied record were held
C37_DraggedBesideSnapshots ==
    /\ last.op = "drag"
    /\ Len(objects.undo_stack) >= 2
    /\ objects.current = 2
    /\ objects.heap[objects.keypoints[1]] # << >>
    /\ objects.heap[Last(objects.undo_stack)] # objects.heap[CurrentList(objects)]

(* C38: while the format mode is COCO, every present keypoint of the active
   record of a side carries a visibility value in {0, 1, 2}. *)
C38_CocoPointsHaveVisibility ==
    format_mode = "coco" =>
        \A s \in Sides :
            \A i \in 1..Len(Keypoints(st[s])) :
                IsPoint(Keypoints(st[s])[i]) => HasVisibility(Keypoints(st[s])[i])

(* C39: in the dual labeler the first drag event of a gesture on a side that
   finds a selected keypoint pushes one snapshot of that side's keypoints on
   that side's undo stack, the later drag events of the gesture push nothing,
   and the stack of the other side stays as it is, also when the gesture
   starts before the release of a gesture on the other side was delivered. *)
C39_EachSideSnapshotsOnce ==
    [][\A s \in Sides :
          (/\ variant = "dual"
           /\ last'.op = "on_canvas_drag" /\ last'.side = s
           /\ st[s].selected_keypoint # 0 /\ edit_mode = "move")
          => /\ st'[s].undo_stack =
                    IF obs[s].gdrags = 0
                    THEN PushCap(st[s].undo_stack, Keypoints(st[s]))
                    ELSE st[s].undo_stack
             /\ st'[OtherSide(s)].undo_stack = st[OtherSide(s)].undo_stack]_vars

=============================================================================
